---- MODULE Spec2Model ----
(***************************************************************************)
(* Model of the derived-data layer of ScanApiClient                        *)
(* (src/canton_scan_client.py): find_rounds_for_month and the wallet       *)
(* balance series built on it.  The Scan service ("Gateway") is the        *)
(* environment: its data is fixed in Init and every request the client     *)
(* issues is appended to `calls`.                                          *)
(*                                                                         *)
(* Encodings.  An ISO-8601 UTC timestamp "YYYY-MM-DDTHH:00:00Z" is the     *)
(* number YYYYMMDDHH, so that string order is number order and parsing is  *)
(* digit extraction.  Python None is -1, the empty string is 0.  A dict    *)
(* is a record whose missing keys hold None (dict.get returns None for     *)
(* both).                                                                  *)
(***************************************************************************)
EXTENDS Integers, Sequences, FiniteSets, TLC

VARIABLES
    ledger,      \* the Gateway's data set (unchanged during a call)
    latest_round,\* latest_data.get("round")
    op,          \* the exported call being executed
    args,        \* its arguments
    pc,          \* position in the code
    left, right, \* binary-search bounds
    first_in_month, last_in_month,
    rounds,      \* return value of find_rounds_for_month
    round_to_effective_time, \* dict of the bulk lookups
    cursor,      \* loop variable: batch_start, r, or index into party_ids
    results,     \* rows accumulated by the series builders
    calls,       \* every Gateway request issued so far, in order
    probes,      \* every get_effective_at call: round and returned value
    feed,        \* the Gateway's activity feed, newest record first
    begin_after_id, \* cursor of export_activities_after
    total_scanned,
    max_receivers, max_balance_changes,
    all_flattened,  \* records buffered by pass 1
    csv_file,    \* content of the output file, a sequence of lines
    raised,      \* the exception that ended the call, "" if it has not raised
    failed,      \* position in calls of the request that raised, 0 if none did
    previous     \* what the call before this one issued, returned and wrote

\* The state of export_activities_after, of the output files and of a call
\* that ended by raising.
export_vars == <<feed, begin_after_id, total_scanned, max_receivers,
                 max_balance_changes, all_flattened, csv_file, raised, failed,
                 previous>>

vars == <<ledger, latest_round, op, args, pc, left, right, first_in_month, last_in_month,
          rounds, round_to_effective_time, cursor, results, calls, probes, export_vars>>

None == -1
EmptyStr == 0
batch_size == 200

\* ------------------------------------------------------------- bounds
MaxTail == 3        \* longest stretch of rounds with unresolved rounds in it
MaxDense == 6       \* longest fully resolved stretch of rounds
MaxParties == 2     \* longest party_ids list
MaxSamples == 4     \* most samples of one series call

\* ---------------------------------------------------------- timestamps
Timestamps == {2024033023, 2024040100, 2024040201}
GenesisTimes == {2023043023}
Years == {2023, 2024}
Months == {3, 4}
Parties == {"alice", "bob"}

Truthy(v) == v # None /\ v # EmptyStr

\* a or b or c
Or3(a, b, c) == IF Truthy(a) THEN a ELSE IF Truthy(b) THEN b ELSE c

\* datetime.fromisoformat(...): the fields of a well-formed timestamp,
\* ValueError otherwise.
IsoYear(t) == t \div 1000000
IsoMonth(t) == (t \div 10000) % 100
IsoDay(t) == (t \div 100) % 100
IsoHour(t) == t % 100
IsoValid(t) ==
    /\ t > 0
    /\ IsoYear(t) \in 1..9999
    /\ IsoMonth(t) \in 1..12
    /\ IsoDay(t) \in 1..31
    /\ IsoHour(t) \in 0..23

\* (a, b) < (c, d) on Python tuples
TupleLess(a, b, c, d) == a < c \/ (a = c /\ b < d)

\* ------------------------------------------------------ Gateway data
\* What the ledger holds for one round: no round-totals record at all, or a
\* record with up to three effective-time fields.
Shape(present, t1, t2, t3) ==
    [present |-> present, closed_round_effective_at |-> t1,
     effectiveAt |-> t2, effective_at |-> t3]
Absent == Shape(FALSE, None, None, None)
NoTime == Shape(TRUE, None, None, None)
At(t) == Shape(TRUE, t, None, None)

ShapeTime(s) ==
    IF s.present
    THEN Or3(s.closed_round_effective_at, s.effectiveAt, s.effective_at)
    ELSE None
ShapeResolved(s) == Truthy(ShapeTime(s)) /\ IsoValid(ShapeTime(s))

SparseShapes == {Absent, NoTime} \cup {At(t) : t \in Timestamps}
DenseShapes == {At(t) : t \in Timestamps}

\* Effective times, where present, are non-decreasing in round number.
NonDecreasing(tl) ==
    \A i, j \in DOMAIN tl :
        (i < j /\ ShapeResolved(tl[i]) /\ ShapeResolved(tl[j]))
            => ShapeTime(tl[i]) <= ShapeTime(tl[j])

SeqsUpTo(S, n) == UNION {[1..k -> S] : k \in 1..n}

Tails ==
    {tl \in SeqsUpTo(SparseShapes, MaxTail) \cup SeqsUpTo(DenseShapes, MaxDense) :
        NonDecreasing(tl)}

\* The ledger: rounds below `base` all look like `prefix`, rounds
\* base .. base+Len(tail)-1 are listed in `tail`, later rounds do not exist.
Bases == {0, 100, 398}
Prefixes == {Absent} \cup {At(t) : t \in GenesisTimes}

Ledgers ==
    {[base |-> b, prefix |-> p, tail |-> tl] :
        b \in Bases, p \in Prefixes, tl \in Tails}

LedgerOk(l) ==
    /\ (l.base = 0 => l.prefix = Absent)
    /\ NonDecreasing(<<l.prefix>> \o l.tail)

LastRound(l) == l.base + Len(l.tail) - 1

RoundShape(l, r) ==
    IF r < 0 \/ r > LastRound(l) THEN Absent
    ELSE IF r < l.base THEN l.prefix
    ELSE l.tail[r - l.base + 1]

\* GET /v0/round-of-latest-data: the latest closed round, or a response
\* without the key.
get_round_of_latest_data(l) == {[round |-> LastRound(l)], [round |-> None]}

\* POST /v0/round-totals: the entries of the closed rounds in
\* [start_round, end_round]; a round without a record has no entry.  The list
\* holds one entry per closed round and is kept as the map from closed_round
\* to that entry.
Entry(l, r) ==
    [closed_round |-> r,
     closed_round_effective_at |-> RoundShape(l, r).closed_round_effective_at,
     effectiveAt |-> RoundShape(l, r).effectiveAt,
     effective_at |-> RoundShape(l, r).effective_at]

list_round_totals(l, start_round, end_round) ==
    [r \in {x \in start_round..end_round : RoundShape(l, x).present} |-> Entry(l, r)]

\* GET /v0/wallet-balance
get_wallet_balance(l, party_id, r) ==
    [wallet_balance |-> (IF party_id = "alice" THEN 5 * r - 150 ELSE 7 * r + 1)]

\* The requests as recorded in `calls`.
LatestCall == [api |-> "round_of_latest_data", party |-> "", a |-> None, b |-> None]
TotalsCall(s, e) == [api |-> "round_totals", party |-> "", a |-> s, b |-> e]
BalanceCall(p, r) == [api |-> "wallet_balance", party |-> p, a |-> r, b |-> None]


\* ------------------------------------------------ find_rounds_for_month
Min(a, b) == IF a < b THEN a ELSE b

batch_start_of(round_num) == (round_num \div batch_size) * batch_size

\* The window is not cut at latest_round.
batch_end_of_uncapped(round_num, latest) ==
    batch_start_of(round_num) + batch_size - 1

batch_end_of(round_num, latest) ==
    Min(batch_start_of(round_num) + batch_size - 1, latest)

\* The three keys are tried in the opposite order.
entry_effective_at_reversed(entry) ==
    Or3(entry.effective_at, entry.effectiveAt, entry.closed_round_effective_at)

\* entry.get(a) or entry.get(b) or entry.get(c)
entry_effective_at(entry) ==
    Or3(entry.closed_round_effective_at, entry.effectiveAt, entry.effective_at)

\* Whether list_round_totals(l, start_round, end_round) holds an entry whose
\* closed_round is round_num (that entry is then Entry(l, round_num)).
has_entry(l, start_round, end_round, round_num) ==
    /\ start_round <= round_num
    /\ round_num <= end_round
    /\ RoundShape(l, round_num).present

\* The scan takes the first entry of the window that has an effective time,
\* whatever its closed_round.
get_effective_at_any_round(l, latest, round_num) ==
    LET entries == list_round_totals(l, batch_start_of(round_num),
                                     batch_end_of(round_num, latest))
        timed == {k \in DOMAIN entries : Truthy(entry_effective_at(entries[k]))}
    IN  IF timed = {} THEN None
        ELSE entry_effective_at(entries[CHOOSE k \in timed : \A j \in timed : k <= j])

\* The request for the window of round_num and the scan of its entries: the
\* effective time of the entry whose closed_round is round_num, if it has one.
get_effective_at(l, latest, round_num) ==
    IF /\ has_entry(l, batch_start_of(round_num),
                    batch_end_of(round_num, latest), round_num)
       /\ Truthy(entry_effective_at(Entry(l, round_num)))
    THEN entry_effective_at(Entry(l, round_num))
    ELSE None

\* Nothing is rejected: every non-empty value counts as a datetime.
parse_dt_any(effective_at) == IF Truthy(effective_at) THEN effective_at ELSE None

\* The parsed datetime (kept as the timestamp number), or None when the
\* lookup is empty or fromisoformat raises.
parse_dt(effective_at) ==
    IF Truthy(effective_at) /\ IsoValid(effective_at) THEN effective_at ELSE None

get_effective_at_dt(l, latest, round_num) ==
    parse_dt(get_effective_at(l, latest, round_num))

\* The comparison looks at the month alone.
period_before_month_only(dt, year, month) == IsoMonth(dt) < month

period_before(dt, year, month) == TupleLess(IsoYear(dt), IsoMonth(dt), year, month)
period_after(dt, year, month) == TupleLess(year, month, IsoYear(dt), IsoMonth(dt))

NoRounds ==
    [found |-> FALSE, start_round |-> None, start_time |-> None,
     end_round |-> None, end_time |-> None]

ProbeCall(round_num) ==
    TotalsCall(batch_start_of(round_num), batch_end_of(round_num, latest_round))
ProbeRecord(search, round_num) ==
    [search |-> search, round |-> round_num,
     at |-> get_effective_at(ledger, latest_round, round_num)]

\* Where control goes when find_rounds_for_month returns.
AfterFind ==
    IF op = "find" THEN "done"
    ELSE IF op = "estimate" THEN "estimate_rounds"
    ELSE "month_rounds"

\* get_round_of_latest_data(); return None without a round; left, right = 0, latest_round
FindStart ==
    /\ pc = "find"
    /\ calls' = Append(calls, LatestCall)
    /\ \E latest_data \in get_round_of_latest_data(ledger) :
          latest_round' = latest_data.round
    /\ IF latest_round' = None
       THEN /\ rounds' = NoRounds
            /\ pc' = AfterFind
            /\ UNCHANGED <<left, right>>
       ELSE /\ left' = 0
            /\ right' = latest_round'
            /\ pc' = "search1"
            /\ UNCHANGED rounds
    /\ UNCHANGED export_vars
    /\ UNCHANGED <<ledger, op, args, first_in_month, last_in_month,
                   round_to_effective_time, cursor, results, probes>>

\* The first search continues to the right of a round of the month.
search1_step_right(l, r, first, mid, dt, year, month) ==
    IF dt = None
    THEN [left |-> mid + 1, right |-> r, found |-> first]
    ELSE IF TupleLess(IsoYear(dt), IsoMonth(dt), year, month)
    THEN [left |-> mid + 1, right |-> r, found |-> first]
    ELSE IF TupleLess(year, month, IsoYear(dt), IsoMonth(dt))
    THEN [left |-> l, right |-> mid - 1, found |-> first]
    ELSE [left |-> mid + 1, right |-> r, found |-> mid]

\* An unresolved probe sends the first search to the left of mid.
search1_step_unresolved_left(l, r, first, mid, dt, year, month) ==
    IF dt = None
    THEN [left |-> l, right |-> mid - 1, found |-> first]
    ELSE IF TupleLess(IsoYear(dt), IsoMonth(dt), year, month)
    THEN [left |-> mid + 1, right |-> r, found |-> first]
    ELSE IF TupleLess(year, month, IsoYear(dt), IsoMonth(dt))
    THEN [left |-> l, right |-> mid - 1, found |-> first]
    ELSE [left |-> l, right |-> mid - 1, found |-> mid]

\* The body of the first loop after the probe: the new left, right, first_in_month.
search1_step(l, r, first, mid, dt, year, month) ==
    IF dt = None
    THEN [left |-> mid + 1, right |-> r, found |-> first]
    ELSE IF period_before(dt, year, month)
    THEN [left |-> mid + 1, right |-> r, found |-> first]
    ELSE IF period_after(dt, year, month)
    THEN [left |-> l, right |-> mid - 1, found |-> first]
    ELSE [left |-> l, right |-> mid - 1, found |-> mid]

\* One iteration of the first binary search.
Search1Probe ==
    /\ pc = "search1"
    /\ left <= right
    /\ LET mid == (left + right) \div 2
           dt == get_effective_at_dt(ledger, latest_round, mid)
           nxt == search1_step(left, right, first_in_month, mid, dt,
                               args.year, args.month)
       IN  /\ left' = nxt.left
           /\ right' = nxt.right
           /\ first_in_month' = nxt.found
           /\ calls' = Append(calls, ProbeCall(mid))
           /\ probes' = Append(probes, ProbeRecord(1, mid))
    /\ UNCHANGED export_vars
    /\ UNCHANGED <<ledger, latest_round, op, args, pc, last_in_month, rounds,
                   round_to_effective_time, cursor, results>>

\* `if not first_in_month`: round 0 counts as no candidate.
no_candidate_falsy(first) == first = None \/ first = 0

\* `if first_in_month is None`
no_candidate(first) == first = None

\* The second search stops one round short of latest_round.
search2_bounds_short(first, latest) == [left |-> first, right |-> latest - 1]

\* The second search starts again at round 0.
search2_bounds_from_zero(first, latest) == [left |-> 0, right |-> latest]

\* left, right = first_in_month, latest_round
search2_bounds(first, latest) == [left |-> first, right |-> latest]

\* The first loop has ended: return None, or set up the second search.
Search1Exit ==
    /\ pc = "search1"
    /\ left > right
    /\ IF no_candidate(first_in_month)
       THEN /\ rounds' = NoRounds
            /\ pc' = AfterFind
            /\ UNCHANGED <<left, right, last_in_month>>
       ELSE /\ left' = search2_bounds(first_in_month, latest_round).left
            /\ right' = search2_bounds(first_in_month, latest_round).right
            /\ last_in_month' = first_in_month
            /\ pc' = "search2"
            /\ UNCHANGED rounds
    /\ UNCHANGED export_vars
    /\ UNCHANGED <<ledger, latest_round, op, args, first_in_month, round_to_effective_time,
                   cursor, results, calls, probes>>

\* The second search continues to the left of a round of the month.
search2_step_left(l, r, last, mid, dt, year, month) ==
    IF dt = None
    THEN [left |-> mid + 1, right |-> r, found |-> last]
    ELSE IF TupleLess(year, month, IsoYear(dt), IsoMonth(dt))
    THEN [left |-> l, right |-> mid - 1, found |-> last]
    ELSE IF TupleLess(IsoYear(dt), IsoMonth(dt), year, month)
    THEN [left |-> mid + 1, right |-> r, found |-> last]
    ELSE [left |-> l, right |-> mid - 1, found |-> mid]

\* A round of the month keeps the left bound at mid.
search2_step_stuck(l, r, last, mid, dt, year, month) ==
    IF dt = None
    THEN [left |-> mid + 1, right |-> r, found |-> last]
    ELSE IF TupleLess(year, month, IsoYear(dt), IsoMonth(dt))
    THEN [left |-> l, right |-> mid - 1, found |-> last]
    ELSE IF TupleLess(IsoYear(dt), IsoMonth(dt), year, month)
    THEN [left |-> mid + 1, right |-> r, found |-> last]
    ELSE [left |-> mid, right |-> r, found |-> mid]

\* The body of the second loop after the probe: the new left, right, last_in_month.
search2_step(l, r, last, mid, dt, year, month) ==
    IF dt = None
    THEN [left |-> mid + 1, right |-> r, found |-> last]
    ELSE IF period_after(dt, year, month)
    THEN [left |-> l, right |-> mid - 1, found |-> last]
    ELSE IF period_before(dt, year, month)
    THEN [left |-> mid + 1, right |-> r, found |-> last]
    ELSE [left |-> mid + 1, right |-> r, found |-> mid]

\* One iteration of the second binary search.
Search2Probe ==
    /\ pc = "search2"
    /\ left <= right
    /\ LET mid == (left + right) \div 2
           dt == get_effective_at_dt(ledger, latest_round, mid)
           nxt == search2_step(left, right, last_in_month, mid, dt,
                               args.year, args.month)
       IN  /\ left' = nxt.left
           /\ right' = nxt.right
           /\ last_in_month' = nxt.found
           /\ calls' = Append(calls, ProbeCall(mid))
           /\ probes' = Append(probes, ProbeRecord(2, mid))
    /\ UNCHANGED export_vars
    /\ UNCHANGED <<ledger, latest_round, op, args, pc, first_in_month, rounds,
                   round_to_effective_time, cursor, results>>

find_result(first, start_time, last, end_time) ==
    [found |-> TRUE, start_round |-> first, start_time |-> start_time,
     end_round |-> last, end_time |-> end_time]

\* The second final lookup reuses the response of the first when both rounds
\* share a window.
final_calls_cached(first, last, latest) ==
    IF batch_start_of(first) = batch_start_of(last)
    THEN <<TotalsCall(batch_start_of(first), batch_end_of(first, latest))>>
    ELSE <<TotalsCall(batch_start_of(first), batch_end_of(first, latest)),
           TotalsCall(batch_start_of(last), batch_end_of(last, latest))>>

\* The requests of get_effective_at(first_in_month), get_effective_at(last_in_month).
final_calls(first, last, latest) ==
    <<TotalsCall(batch_start_of(first), batch_end_of(first, latest)),
      TotalsCall(batch_start_of(last), batch_end_of(last, latest))>>

\* The second loop has ended: the two final lookups and the return.
FindReturn ==
    /\ pc = "search2"
    /\ left > right
    /\ rounds' = find_result(first_in_month,
                     get_effective_at(ledger, latest_round, first_in_month),
                     last_in_month,
                     get_effective_at(ledger, latest_round, last_in_month))
    /\ calls' = calls \o final_calls(first_in_month, last_in_month, latest_round)
    /\ probes' = probes \o <<ProbeRecord(0, first_in_month),
                             ProbeRecord(0, last_in_month)>>
    /\ pc' = AfterFind
    /\ UNCHANGED export_vars
    /\ UNCHANGED <<ledger, latest_round, op, args, left, right, first_in_month, last_in_month,
                   round_to_effective_time, cursor, results>>


\* ------------------- get_wallet_balances_for_month_from_rounds_estimate
\* `if not rounds: return result`, else the loop over party_ids starts.
EstimateRounds ==
    /\ pc = "estimate_rounds"
    /\ IF rounds.found
       THEN pc' = "estimate_loop" /\ cursor' = 1
       ELSE pc' = "done" /\ UNCHANGED cursor
    /\ UNCHANGED export_vars
    /\ UNCHANGED <<ledger, latest_round, op, args, left, right, first_in_month, last_in_month,
                   rounds, round_to_effective_time, results, calls, probes>>

month_row(l, party_id, r) ==
    [party_id |-> party_id,
     beginning_of_month_round |-> r.start_round,
     beginning_of_month_time |-> r.start_time,
     beginning_of_month_balance |->
         get_wallet_balance(l, party_id, r.start_round).wallet_balance,
     end_of_month_round |-> r.end_round,
     end_of_month_time |-> r.end_time,
     end_of_month_balance |->
         get_wallet_balance(l, party_id, r.end_round).wallet_balance]

\* A third query, at the round halfway between the two endpoints.
month_calls_midpoint(party_id, r) ==
    <<BalanceCall(party_id, r.start_round),
      BalanceCall(party_id, (r.start_round + r.end_round) \div 2),
      BalanceCall(party_id, r.end_round)>>

month_calls(party_id, r) ==
    <<BalanceCall(party_id, r.start_round), BalanceCall(party_id, r.end_round)>>

\* One iteration of `for party_id in party_ids`.
EstimateParty ==
    /\ pc = "estimate_loop"
    /\ cursor <= Len(args.party_ids)
    /\ calls' = calls \o month_calls(args.party_ids[cursor], rounds)
    /\ results' = Append(results, month_row(ledger, args.party_ids[cursor], rounds))
    /\ cursor' = cursor + 1
    /\ UNCHANGED export_vars
    /\ UNCHANGED <<ledger, latest_round, op, args, pc, left, right, first_in_month,
                   last_in_month, rounds, round_to_effective_time, probes>>

\* The loop has ended: return result.
EstimateReturn ==
    /\ pc = "estimate_loop"
    /\ cursor > Len(args.party_ids)
    /\ pc' = "done"
    /\ UNCHANGED export_vars
    /\ UNCHANGED <<ledger, latest_round, op, args, left, right, first_in_month, last_in_month,
                   rounds, round_to_effective_time, cursor, results, calls, probes>>

\* ---- get_wallet_balances_for_all_rounds_in_month, get_wallet_balances_for_rounds
\* `if not rounds_info: return []`, else start_round, end_round are taken from it.
MonthRounds ==
    /\ pc = "month_rounds"
    /\ IF rounds.found
       THEN /\ pc' = "bulk"
            /\ args' = [args EXCEPT !.first_round = rounds.start_round,
                                    !.last_round = rounds.end_round]
            /\ cursor' = rounds.start_round
       ELSE pc' = "done" /\ UNCHANGED <<args, cursor>>
    /\ UNCHANGED export_vars
    /\ UNCHANGED <<ledger, latest_round, op, left, right, first_in_month,
                   last_in_month, rounds, round_to_effective_time, results, calls,
                   probes>>

\* The window runs one round into the next one.
bulk_end_overlapping(batch_start, last_round) == Min(batch_start + batch_size, last_round)

bulk_end(batch_start, last_round) == Min(batch_start + batch_size - 1, last_round)

\* round_to_effective_time after the entries of one response are stored.
store_entries(dict, entries) ==
    LET new == {k \in DOMAIN entries :
                   /\ entries[k].closed_round # None
                   /\ Truthy(entry_effective_at(entries[k]))}
    IN  [r \in DOMAIN dict \cup {entries[k].closed_round : k \in new} |->
            IF r \in new THEN entry_effective_at(entries[r]) ELSE dict[r]]

\* round_to_effective_time.get(r)
dict_get(dict, r) == IF r \in DOMAIN dict THEN dict[r] ELSE None

\* One iteration of `for batch_start in range(first, last + 1, batch_size)`.
BulkBatch ==
    /\ pc = "bulk"
    /\ cursor <= args.last_round
    /\ calls' = Append(calls, TotalsCall(cursor, bulk_end(cursor, args.last_round)))
    /\ round_to_effective_time' =
          store_entries(round_to_effective_time,
              list_round_totals(ledger, cursor, bulk_end(cursor, args.last_round)))
    /\ cursor' = cursor + batch_size
    /\ UNCHANGED export_vars
    /\ UNCHANGED <<ledger, latest_round, op, args, pc, left, right, first_in_month,
                   last_in_month, rounds, results, probes>>

\* The batch loop has ended: the sample loop starts at first_round.
BulkExit ==
    /\ pc = "bulk"
    /\ cursor > args.last_round
    /\ pc' = "samples"
    /\ cursor' = args.first_round
    /\ UNCHANGED export_vars
    /\ UNCHANGED <<ledger, latest_round, op, args, left, right, first_in_month, last_in_month,
                   rounds, round_to_effective_time, results, calls, probes>>

sample_row(l, dict, party_id, r) ==
    [round |-> r, effective_time |-> dict_get(dict, r),
     wallet_balance |-> get_wallet_balance(l, party_id, r).wallet_balance]

\* The stride is ignored.
next_round_every(r, step) == r + 1

next_round(r, step) == r + step

\* One iteration of `for r in range(first, last + 1, step)`.
Sample ==
    /\ pc = "samples"
    /\ cursor <= args.last_round
    /\ calls' = Append(calls, BalanceCall(args.party_id, cursor))
    /\ results' = Append(results,
          sample_row(ledger, round_to_effective_time, args.party_id, cursor))
    /\ cursor' = next_round(cursor, args.step)
    /\ UNCHANGED export_vars
    /\ UNCHANGED <<ledger, latest_round, op, args, pc, left, right, first_in_month,
                   last_in_month, rounds, round_to_effective_time, probes>>

\* The sample loop has ended: return results.
SamplesReturn ==
    /\ pc = "samples"
    /\ cursor > args.last_round
    /\ pc' = "done"
    /\ UNCHANGED export_vars
    /\ UNCHANGED <<ledger, latest_round, op, args, left, right, first_in_month, last_in_month,
                   rounds, round_to_effective_time, cursor, results, calls, probes>>


\* ---------------------------------------------- export_activities_after
\* No exception has ended the call.
NotRaised == ""

\* A Python dict is a function on its keys; the dict without keys:
EmptyDict == [k \in {} |-> None]

\* The activity feed.  A record has an event_id, a date (a timestamp, the
\* empty string, or no date key) and possibly a transfer holding the lists
\* receivers and balance_changes.
MaxFeed == 3        \* most records in the feed
MaxLists == 2       \* longest receivers / balance_changes list
MaxPage == 2        \* largest page_size

Receiver(i) ==
    IF i % 2 = 1
    THEN [party |-> 10 + i, amount |-> 100 * i, receiver_fee |-> i]
    ELSE [party |-> 10 + i, amount |-> 100 * i]
BalanceChange(i) ==
    [party |-> 10 + i, change_to_initial_amount_as_of_round_zero |-> 1000 + i,
     change_to_holding_fees_rate |-> i]
Transfer(n, m) ==
    [provider |-> 7, sender |-> [party |-> 9, amount |-> 50],
     receivers |-> [i \in 1..n |-> Receiver(i)],
     balance_changes |-> [i \in 1..m |-> BalanceChange(i)]]
Transfers == {Transfer(0, 0), Transfer(1, MaxLists), Transfer(MaxLists, 0)}

Dated(d) == IF d = None THEN EmptyDict ELSE [date |-> d]
Bodies ==
    {Dated(d) : d \in Timestamps \cup {EmptyStr}}
        \cup {Dated(2024040201) @@ [transfer |-> t] : t \in Transfers}
        \cup {Dated(d) @@ [transfer |-> Transfer(MaxLists, 0)] :
                 d \in {2024040100, 2024033023}}
        \cup {Dated(None) @@ [transfer |-> Transfer(1, MaxLists)]}

\* dict.get(key)
get(d, key) == IF key \in DOMAIN d THEN d[key] ELSE None

\* Dates, where present, do not increase along the feed.
ReverseChronological(f) ==
    \A i, j \in DOMAIN f :
        (i < j /\ Truthy(get(f[i], "date")) /\ Truthy(get(f[j], "date")))
            => f[i].date >= f[j].date

\* Records carry their position in the feed as event_id; the record at
\* position `noid` (if any) lacks the key.
Numbered(bodies, noid) ==
    [i \in DOMAIN bodies |->
        IF i = noid THEN bodies[i] ELSE bodies[i] @@ [event_id |-> i]]

Feeds ==
    {Numbered(f, n) :
        f \in {g \in {<<>>} \cup SeqsUpTo(Bodies, MaxFeed) : ReverseChronological(g)},
        n \in {0, 1, 2}}

\* POST /v0/activities: the page_size records that follow the record whose
\* event_id is begin_after_id (the first records for the empty cursor).
after_index(f, id) ==
    IF id = EmptyStr THEN 0
    ELSE CHOOSE i \in DOMAIN f : get(f[i], "event_id") = id

list_activity(f, page_size, id) ==
    [activities |->
        SubSeq(f, after_index(f, id) + 1, Min(after_index(f, id) + page_size, Len(f)))]

ActivityCall(page_size, id) ==
    [api |-> "activities", party |-> "", a |-> id, b |-> page_size]

\* `activity_date and activity_date < after_timestamp`
is_before(activity, after_timestamp) ==
    /\ Truthy(get(activity, "date"))
    /\ activity.date < after_timestamp

\* The for-loop over the page never breaks.
scan_stop_never(activities, after_timestamp) == Len(activities) + 1

\* The for-loop breaks one record late: the first old record is buffered too.
scan_stop_late(activities, after_timestamp) ==
    IF \E i \in DOMAIN activities : is_before(activities[i], after_timestamp)
    THEN 1 + CHOOSE i \in DOMAIN activities :
                /\ is_before(activities[i], after_timestamp)
                /\ \A j \in 1..(i - 1) : ~is_before(activities[j], after_timestamp)
    ELSE Len(activities) + 1

\* The index at which the for-loop over the page breaks, Len + 1 if it does not.
scan_stop(activities, after_timestamp) ==
    IF \E i \in DOMAIN activities : is_before(activities[i], after_timestamp)
    THEN CHOOSE i \in DOMAIN activities :
            /\ is_before(activities[i], after_timestamp)
            /\ \A j \in 1..(i - 1) : ~is_before(activities[j], after_timestamp)
    ELSE Len(activities) + 1

\* `if transfer:` and len(transfer.get(key, []))
list_len(activity, key) ==
    IF "transfer" \in DOMAIN activity /\ DOMAIN activity.transfer # {}
    THEN IF key \in DOMAIN activity.transfer THEN Len(activity.transfer[key]) ELSE 0
    ELSE 0

Max(a, b) == IF a > b THEN a ELSE b

\* The maximum counts the first record only.
max_len_first(m, taken, key) ==
    IF taken = <<>> THEN m ELSE Max(m, list_len(Head(taken), key))

RECURSIVE max_len(_, _, _)
\* max(m, len(...)) folded over the records taken from a page
max_len(m, taken, key) ==
    IF taken = <<>> THEN m
    ELSE max_len(Max(m, list_len(Head(taken), key)), Tail(taken), key)

\* The cursor is left as it was.
next_cursor_kept(activities, id) == id

\* The cursor is taken from the first record of the page.
next_cursor_first(activities, id) == get(activities[1], "event_id")

\* begin_after_id = activities[-1].get("event_id")
next_cursor(activities, id) == get(activities[Len(activities)], "event_id")

\* One iteration of `while True`: the request, the scan of the page, the
\* cursor update and the decision to go on.
ExportPage ==
    /\ pc = "pass1"
    /\ calls' = Append(calls, ActivityCall(args.page_size, begin_after_id))
    /\ LET activities ==
               list_activity(feed, args.page_size, begin_after_id).activities
           stop == scan_stop(activities, args.after_timestamp)
           taken == SubSeq(activities, 1, stop - 1)
       IN  IF activities = <<>>
           THEN /\ pc' = "pass2"
                /\ UNCHANGED <<begin_after_id, total_scanned, max_receivers,
                               max_balance_changes, all_flattened>>
           ELSE /\ all_flattened' = all_flattened \o taken
                /\ total_scanned' = total_scanned + Len(taken)
                /\ max_receivers' = max_len(max_receivers, taken, "receivers")
                /\ max_balance_changes' =
                      max_len(max_balance_changes, taken, "balance_changes")
                /\ IF stop <= Len(activities)
                   THEN pc' = "pass2" /\ UNCHANGED begin_after_id
                   ELSE /\ begin_after_id' = next_cursor(activities, begin_after_id)
                        /\ pc' = IF \/ ~Truthy(begin_after_id')
                                    \/ is_before(activities[Len(activities)],
                                                 args.after_timestamp)
                                 THEN "pass2" ELSE "pass1"
    /\ UNCHANGED <<ledger, latest_round, op, args, left, right, first_in_month,
                   last_in_month, rounds, round_to_effective_time, cursor, results,
                   probes, feed, csv_file, raised,
                   failed, previous>>

\* json.dumps(v): the text of v
json_dumps(v) == ToString(v)

\* f"{prefix}_{i}_{field}"
column(prefix, i, field) == prefix \o "_" \o ToString(i) \o "_" \o field

ReceiverFields == {"party", "amount", "receiver_fee"}
BalanceChangeFields ==
    {"party", "change_to_initial_amount_as_of_round_zero",
     "change_to_holding_fees_rate"}

\* A list shorter than the width gets no columns for the missing indices.
fields_at_unpadded(tv, i, known) == IF i < Len(tv) THEN DOMAIN tv[i + 1] ELSE {}

\* The sub-fields written for index i of a list: the keys of element i, or
\* the known sub-fields when the list is shorter.
fields_at(tv, i, known) == IF i < Len(tv) THEN DOMAIN tv[i + 1] ELSE known

\* The per-index columns of one list of the transfer, for i in range(width).
expand(prefix, tv, width, known) ==
    LET cells == {p \in (0..(width - 1)) \X
                        (known \cup UNION {DOMAIN tv[k] : k \in DOMAIN tv}) :
                     p[2] \in fields_at(tv, p[1], known)}
    IN  [c \in {column(prefix, p[1], p[2]) : p \in cells} |->
            LET p == CHOOSE q \in cells : column(prefix, q[1], q[2]) = c
            IN  IF p[1] < Len(tv) THEN tv[p[1] + 1][p[2]] ELSE None]

\* The keys of the transfer whose value is a dict other than the two lists.
TransferDicts == {"sender"}

\* The columns of one (tk, tv) of the transfer.
flatten_transfer_item(tk, tv, max_r, max_b) ==
    IF tk = "receivers"
    THEN expand("transfer_receivers", tv, max_r, ReceiverFields)
            @@ [c \in {"transfer_receivers"} |-> json_dumps(tv)]
    ELSE IF tk = "balance_changes"
    THEN expand("transfer_balance_changes", tv, max_b, BalanceChangeFields)
            @@ [c \in {"transfer_balance_changes"} |-> json_dumps(tv)]
    ELSE IF tk \in TransferDicts
    THEN [c \in {"transfer_" \o tk \o "_" \o sk : sk \in DOMAIN tv} |->
            tv[CHOOSE sk \in DOMAIN tv : "transfer_" \o tk \o "_" \o sk = c]]
    ELSE [c \in {"transfer_" \o tk} |-> tv]

RECURSIVE flatten_transfer(_, _, _, _)
\* The columns of the items of the transfer v whose keys are in `keys`.
flatten_transfer(v, keys, max_r, max_b) ==
    IF keys = {} THEN EmptyDict
    ELSE LET tk == CHOOSE x \in keys : TRUE
         IN  flatten_transfer_item(tk, v[tk], max_r, max_b)
                @@ flatten_transfer(v, keys \ {tk}, max_r, max_b)

RECURSIVE flatten_items(_, _, _, _)
\* The columns of the items of the record d whose keys are in `keys`.
flatten_items(d, keys, max_r, max_b) ==
    IF keys = {} THEN EmptyDict
    ELSE LET k == CHOOSE x \in keys : TRUE
         IN  (IF k = "transfer"
              THEN flatten_transfer(d[k], DOMAIN d[k], max_r, max_b)
              ELSE [c \in {k} |-> d[k]])
                @@ flatten_items(d, keys \ {k}, max_r, max_b)

\* flatten(d, max_receivers, max_balance_changes)
flatten(d, max_r, max_b) == flatten_items(d, DOMAIN d, max_r, max_b)

\* Python's order of the column names: sorted(fieldnames) lists them in the
\* order they have in ColumnOrder.
RECURSIVE index_columns(_, _, _)
index_columns(prefix, fields, n) ==
    IF n = 0 THEN <<>>
    ELSE index_columns(prefix, fields, n - 1)
            \o [j \in DOMAIN fields |-> column(prefix, n - 1, fields[j])]

ColumnOrder(width) ==
    <<"date", "event_id", "transfer_balance_changes">>
        \o index_columns("transfer_balance_changes",
               <<"change_to_holding_fees_rate",
                 "change_to_initial_amount_as_of_round_zero", "party">>, width)
        \o <<"transfer_provider", "transfer_receivers">>
        \o index_columns("transfer_receivers",
               <<"amount", "party", "receiver_fee">>, width)
        \o <<"transfer_sender_amount", "transfer_sender_party">>

\* The column names in descending order.
sorted_reversed(names, width) ==
    LET order == ColumnOrder(width)
        rev == [i \in DOMAIN order |-> order[Len(order) + 1 - i]]
    IN  SelectSeq(rev, LAMBDA c : c \in names)

\* sorted(fieldnames)
sorted(names, width) == SelectSeq(ColumnOrder(width), LAMBDA c : c \in names)

\* get_all_fieldnames()
get_all_fieldnames(buffered, max_r, max_b) ==
    sorted(UNION {DOMAIN flatten(buffered[i], max_r, max_b) : i \in DOMAIN buffered},
           Max(max_r, max_b))

\* The text csv writes for a value: nothing for None, str(v) otherwise.
TextColumns == {"transfer_receivers", "transfer_balance_changes"}
\* Columns that hold a number in every row: 0 is written as "0".
NumberColumns == {"round", "wallet_balance", "closed_round", "cumulative_app_rewards"}
csv_cell(c, v) ==
    IF c \in TextColumns THEN v
    ELSE IF c \in NumberColumns THEN ToString(v)
    ELSE IF v = None \/ v = EmptyStr THEN ""
    ELSE ToString(v)

\* The output file: whether it exists, and its lines.
NoFile == [exists |-> FALSE, lines |-> <<>>]
OldFile == [exists |-> TRUE, lines |-> <<[kind |-> "old", cells |-> <<>>]>>]
HeaderLine(fieldnames) == [kind |-> "header", cells |-> fieldnames]

\* DictWriter.writerow(flat): the cells in the order of fieldnames, empty for
\* a column the row does not have.
writerow(fieldnames, flat) ==
    [kind |-> "row",
     cells |-> [i \in DOMAIN fieldnames |->
                   IF fieldnames[i] \in DOMAIN flat
                   THEN csv_cell(fieldnames[i], flat[fieldnames[i]])
                   ELSE ""]]

\* No header line is written when there is no column.
writeheader_if_columns(fieldnames) ==
    [exists |-> TRUE,
     lines |-> IF fieldnames = <<>> THEN <<>> ELSE <<HeaderLine(fieldnames)>>]

\* open(csv_path, "w") and writer.writeheader(): the file is created or
\* truncated and holds the header line.
writeheader(fieldnames) ==
    [exists |-> TRUE, lines |-> <<HeaderLine(fieldnames)>>]

\* get_all_fieldnames(), open(csv_path, "w"), writer.writeheader()
WriteHeader ==
    /\ pc = "pass2"
    /\ csv_file' = writeheader(get_all_fieldnames(all_flattened, max_receivers,
                                                  max_balance_changes))
    /\ cursor' = 1
    /\ pc' = "rows"
    /\ UNCHANGED <<ledger, latest_round, op, args, left, right, first_in_month,
                   last_in_month, rounds, round_to_effective_time, results, calls,
                   probes, feed, begin_after_id, total_scanned, max_receivers,
                   max_balance_changes, all_flattened, raised,
                   failed, previous>>

\* One iteration of `for activity in all_flattened`: the cutoff check again,
\* then the row.
WriteRow ==
    /\ pc = "rows"
    /\ cursor <= Len(all_flattened)
    /\ IF is_before(all_flattened[cursor], args.after_timestamp)
       THEN pc' = "done" /\ UNCHANGED <<csv_file, cursor>>
       ELSE /\ csv_file' =
                  [csv_file EXCEPT !.lines =
                      Append(@, writerow(get_all_fieldnames(all_flattened,
                                             max_receivers, max_balance_changes),
                                    flatten(all_flattened[cursor], max_receivers,
                                            max_balance_changes)))]
            /\ cursor' = cursor + 1
            /\ UNCHANGED pc
    /\ UNCHANGED <<ledger, latest_round, op, args, left, right, first_in_month,
                   last_in_month, rounds, round_to_effective_time, results, calls,
                   probes, feed, begin_after_id, total_scanned, max_receivers,
                   max_balance_changes, all_flattened, raised,
                   failed, previous>>

\* The loop has ended and the file is closed.
WriteDone ==
    /\ pc = "rows"
    /\ cursor > Len(all_flattened)
    /\ pc' = "done"
    /\ UNCHANGED <<ledger, latest_round, op, args, left, right, first_in_month,
                   last_in_month, rounds, round_to_effective_time, cursor, results,
                   calls, probes, export_vars>>


\* ------------------------------------------------------ specification
Steps == {1, 10, batch_size}
Spans == {0, 1, 2, 11, 12, batch_size + 1, 2 * batch_size + 1}
FirstRounds == {0, 50, 100}

PartyLists == {<<>>} \cup SeqsUpTo(Parties, MaxParties)

NoArgs ==
    [year |-> None, month |-> None, party_ids |-> <<>>, party_id |-> "",
     first_round |-> None, last_round |-> None, step |-> None,
     after_timestamp |-> None, page_size |-> None, csv |-> FALSE]

\* The (first_round, last_round, step) of a series call: a span of rounds
\* walked in at most MaxSamples samples.
SeriesInputs ==
    {i \in {[NoArgs EXCEPT !.party_id = p, !.first_round = a,
                           !.last_round = a + n - 1, !.step = st] :
                p \in Parties, a \in FirstRounds, n \in Spans, st \in Steps} :
        i.last_round - i.first_round < MaxSamples * i.step}

\* The ledgers of the callers of find_rounds_for_month and of the series:
\* a short recent history after an empty past.
ShortLedgers ==
    {l \in Ledgers :
        /\ LedgerOk(l)
        /\ l.base \in FirstRounds
        /\ l.prefix = Absent
        /\ Len(l.tail) <= MaxTail}

\* No call was made before this one.
NoPrevious ==
    [ran |-> FALSE, latest_round |-> None, calls |-> <<>>, results |-> <<>>,
     rounds |-> NoRounds, csv_file |-> [exists |-> FALSE, lines |-> <<>>]]

InitCommon ==
    /\ latest_round = None
    /\ left = None /\ right = None
    /\ first_in_month = None /\ last_in_month = None
    /\ rounds = NoRounds
    /\ round_to_effective_time = <<>>
    /\ results = <<>>
    /\ calls = <<>>
    /\ probes = <<>>

\* find_rounds_for_month(year, month)
InitFind ==
    /\ op = "find"
    /\ ledger \in {l \in Ledgers : LedgerOk(l)}
    /\ \E y \in Years, m \in Months : args = [NoArgs EXCEPT !.year = y, !.month = m]
    /\ pc = "find"
    /\ cursor = None

\* get_wallet_balances_for_month_from_rounds_estimate(party_ids, year, month)
InitEstimate ==
    /\ op = "estimate"
    /\ ledger \in ShortLedgers
    /\ \E y \in Years, m \in Months, ps \in PartyLists :
          args = [NoArgs EXCEPT !.year = y, !.month = m, !.party_ids = ps]
    /\ pc = "find"
    /\ cursor = None

\* get_wallet_balances_for_all_rounds_in_month(party_id, year, month, step)
InitMonth ==
    /\ op = "month"
    /\ ledger \in ShortLedgers
    /\ \E y \in Years, m \in Months, p \in Parties, st \in Steps :
          args = [NoArgs EXCEPT !.year = y, !.month = m, !.party_id = p, !.step = st]
    /\ pc = "find"
    /\ cursor = None

\* get_wallet_balances_for_rounds(party_id, first_round, last_round, step)
InitRounds ==
    /\ op = "rounds"
    /\ ledger \in ShortLedgers
    /\ args \in SeriesInputs
    /\ pc = "bulk"
    /\ cursor = args.first_round

\* No export is running, no file is written and nothing has raised.
InitNoExport ==
    /\ feed = <<>>
    /\ begin_after_id = EmptyStr
    /\ total_scanned = 0
    /\ max_receivers = 0 /\ max_balance_changes = 0
    /\ all_flattened = <<>>
    /\ csv_file = NoFile
    /\ raised = NotRaised
    /\ failed = 0
    /\ previous = NoPrevious

Init ==
    InitCommon /\ InitNoExport
        /\ (InitFind \/ InitEstimate \/ InitMonth \/ InitRounds)

Next ==
    \/ FindStart
    \/ Search1Probe
    \/ Search1Exit
    \/ Search2Probe
    \/ FindReturn
    \/ EstimateRounds
    \/ EstimateParty
    \/ EstimateReturn
    \/ MonthRounds
    \/ BulkBatch
    \/ BulkExit
    \/ Sample
    \/ SamplesReturn

Spec == Init /\ [][Next]_vars

\* ------------------------------- specification of export_activities_after
Cutoffs == {2024040100}
PageSizes == 1..MaxPage

\* The ledger plays no part in the export.
IdleLedger == [base |-> 0, prefix |-> Absent, tail |-> <<NoTime>>]

\* export_activities_after(after_timestamp, csv_path, page_size)
InitExport ==
    /\ InitCommon
    /\ op = "export"
    /\ ledger = IdleLedger
    /\ feed \in Feeds
    /\ \E t \in Cutoffs, n \in PageSizes :
          args = [NoArgs EXCEPT !.after_timestamp = t, !.page_size = n]
    /\ pc = "pass1"
    /\ cursor = None
    /\ begin_after_id = EmptyStr
    /\ total_scanned = 0
    /\ max_receivers = 0 /\ max_balance_changes = 0
    /\ all_flattened = <<>>
    /\ csv_file \in {NoFile, OldFile}
    /\ raised = NotRaised
    /\ failed = 0
    /\ previous = NoPrevious

NextExport ==
    \/ ExportPage
    \/ WriteHeader
    \/ WriteRow
    \/ WriteDone

SpecExport == InitExport /\ [][NextExport]_vars

\* Pass 1 over feeds in any order of dates; the call runs on: a step that can
\* be taken is taken.
ScanBodies == {Dated(d) : d \in Timestamps \cup {EmptyStr, None}}
ScanFeeds ==
    {Numbered(f, n) : f \in {<<>>} \cup SeqsUpTo(ScanBodies, MaxFeed), n \in {0, 1, 2}}

InitScan ==
    /\ InitCommon
    /\ op = "export"
    /\ ledger = IdleLedger
    /\ feed \in ScanFeeds
    /\ \E t \in Cutoffs, n \in PageSizes :
          args = [NoArgs EXCEPT !.after_timestamp = t, !.page_size = n]
    /\ pc = "pass1"
    /\ cursor = None
    /\ begin_after_id = EmptyStr
    /\ total_scanned = 0
    /\ max_receivers = 0 /\ max_balance_changes = 0
    /\ all_flattened = <<>>
    /\ csv_file = NoFile
    /\ raised = NotRaised
    /\ failed = 0
    /\ previous = NoPrevious

SpecExportLive == InitScan /\ [][NextExport]_vars /\ WF_vars(NextExport)

\* ------------------- the other operations that need the latest round
\* `if latest_round is None`, as `if not latest_round`
missing_round_falsy(latest) == latest = None \/ latest = 0

\* `if latest_round is None`
missing_round(latest) == latest = None

latest_balance_row(l, latest_data, party_id) ==
    [round |-> latest_data.round,
     effective_at |-> get(latest_data, "effectiveAt"),
     wallet_balance |->
         get_wallet_balance(l, party_id, latest_data.round).wallet_balance,
     party_id |-> party_id]

\* get_latest_wallet_balance(party_id)
LatestBalance ==
    /\ pc = "latest_balance"
    /\ \E latest_data \in get_round_of_latest_data(ledger) :
          /\ latest_round' = latest_data.round
          /\ IF missing_round(latest_data.round)
             THEN /\ raised' = "ValueError"
                  /\ pc' = "raised"
                  /\ calls' = Append(calls, LatestCall)
                  /\ UNCHANGED results
             ELSE /\ calls' = calls \o <<LatestCall,
                                        BalanceCall(args.party_id, latest_data.round)>>
                  /\ results' = <<latest_balance_row(ledger, latest_data,
                                                     args.party_id)>>
                  /\ pc' = "done"
                  /\ UNCHANGED raised
    /\ UNCHANGED <<ledger, op, args, left, right, first_in_month, last_in_month,
                   rounds, round_to_effective_time, cursor, probes, feed,
                   begin_after_id, total_scanned, max_receivers,
                   max_balance_changes, all_flattened, csv_file, failed, previous>>

\* start_round = max(0, latest_round - 9)
last10_start(latest) == Max(0, latest - 9)

\* get_wallet_balance_last_10_rounds: the latest round, `return []` without
\* one, else the bulk lookup of the effective times.
Last10Start ==
    /\ pc = "last10"
    /\ \E latest_data \in get_round_of_latest_data(ledger) :
          latest_round' = latest_data.round
    /\ IF missing_round(latest_round')
       THEN /\ calls' = Append(calls, LatestCall)
            /\ results' = <<>>
            /\ pc' = "done"
            /\ UNCHANGED <<round_to_effective_time, cursor>>
       ELSE /\ calls' = calls \o
                  <<LatestCall, TotalsCall(last10_start(latest_round'), latest_round')>>
            /\ round_to_effective_time' =
                  store_entries(<<>>,
                      list_round_totals(ledger, last10_start(latest_round'),
                                        latest_round'))
            /\ cursor' = last10_start(latest_round')
            /\ pc' = "last10_loop"
            /\ UNCHANGED results
    /\ UNCHANGED <<ledger, op, args, left, right, first_in_month, last_in_month,
                   rounds, probes, export_vars>>

\* One iteration of `for round_num in range(start_round, latest_round + 1)`.
Last10Sample ==
    /\ pc = "last10_loop"
    /\ cursor <= latest_round
    /\ calls' = Append(calls, BalanceCall(args.party_id, cursor))
    /\ results' = Append(results,
          sample_row(ledger, round_to_effective_time, args.party_id, cursor))
    /\ cursor' = cursor + 1
    /\ UNCHANGED <<ledger, latest_round, op, args, pc, left, right, first_in_month,
                   last_in_month, rounds, round_to_effective_time, probes,
                   export_vars>>

RECURSIVE write_rows(_, _, _)
\* The file after writer.writerow(row) for each row of `rows`.
write_rows(file, fieldnames, rows) ==
    IF rows = <<>> THEN file
    ELSE write_rows([file EXCEPT !.lines = Append(@, writerow(fieldnames, Head(rows)))],
                    fieldnames, Tail(rows))

Last10Fields == <<"round", "effective_time", "wallet_balance">>

\* The loop has ended: the file when csv is set, and the return.
Last10Return ==
    /\ pc = "last10_loop"
    /\ cursor > latest_round
    /\ csv_file' = IF args.csv
                   THEN write_rows(writeheader(Last10Fields), Last10Fields, results)
                   ELSE csv_file
    /\ pc' = "done"
    /\ UNCHANGED <<ledger, latest_round, op, args, left, right, first_in_month,
                   last_in_month, rounds, round_to_effective_time, cursor, results,
                   calls, probes, feed, begin_after_id, total_scanned, max_receivers,
                   max_balance_changes, all_flattened, raised,
                   failed, previous>>

\* POST /v0/round-party-totals: for every closed round of the window that has
\* a record, one entry per party, in round order.
party_entry(r, party) ==
    [closed_round |-> r, party |-> party, cumulative_app_rewards |-> 3 * r]

RECURSIVE party_entries(_, _, _)
party_entries(l, start_round, end_round) ==
    IF start_round > end_round THEN <<>>
    ELSE (IF RoundShape(l, start_round).present
          THEN <<party_entry(start_round, "alice"), party_entry(start_round, "bob")>>
          ELSE <<>>)
            \o party_entries(l, start_round + 1, end_round)

list_round_party_totals(l, start_round, end_round) ==
    [entries |-> party_entries(l, start_round, end_round)]

PartyTotalsCall(s, e) == [api |-> "round_party_totals", party |-> "", a |-> s, b |-> e]

\* list(entries[0].keys()), with effective_time appended
PartyTotalsFields ==
    <<"closed_round", "party", "cumulative_app_rewards", "effective_time">>

\* The text of a cell of the party totals file.
party_cell(c, v) ==
    IF c = "party" THEN v
    ELSE IF c \in NumberColumns THEN ToString(v)
    ELSE IF v = None \/ v = EmptyStr THEN ""
    ELSE ToString(v)

\* entry["effective_time"] = round_to_effective_time.get(round_num), then
\* writer.writerow(entry)
party_row(entry, dict) ==
    [kind |-> "row",
     cells |-> [i \in DOMAIN PartyTotalsFields |->
                   IF PartyTotalsFields[i] = "effective_time"
                   THEN party_cell("effective_time", dict_get(dict, entry.closed_round))
                   ELSE party_cell(PartyTotalsFields[i], entry[PartyTotalsFields[i]])]]

\* export_all_round_party_totals_to_csv: the latest round, `return` without
\* one, else the file is opened.
PartyTotalsStart ==
    /\ pc = "party_totals"
    /\ calls' = Append(calls, LatestCall)
    /\ \E latest_data \in get_round_of_latest_data(ledger) :
          latest_round' = latest_data.round
    /\ IF missing_round(latest_round')
       THEN pc' = "done" /\ UNCHANGED <<csv_file, cursor>>
       ELSE /\ csv_file' = [exists |-> TRUE, lines |-> <<>>]
            /\ cursor' = args.first_round
            /\ pc' = "party_batches"
    /\ UNCHANGED <<ledger, op, args, left, right, first_in_month, last_in_month,
                   rounds, round_to_effective_time, results, probes, feed,
                   begin_after_id, total_scanned, max_receivers,
                   max_balance_changes, all_flattened, raised,
                   failed, previous>>

\* One iteration of `for batch_start in range(start_round, latest_round + 1,
\* batch_size)`.
PartyTotalsBatch ==
    /\ pc = "party_batches"
    /\ cursor <= latest_round
    /\ LET batch_end == Min(cursor + args.step - 1, latest_round)
           entries == list_round_party_totals(ledger, cursor, batch_end).entries
           dict == store_entries(<<>>, list_round_totals(ledger, cursor, batch_end))
           opened == IF csv_file.lines = <<>>
                     THEN <<HeaderLine(PartyTotalsFields)>>
                     ELSE csv_file.lines
       IN  IF entries = <<>>
           THEN /\ calls' = Append(calls, PartyTotalsCall(cursor, batch_end))
                /\ UNCHANGED <<csv_file, total_scanned>>
           ELSE /\ calls' = calls \o <<PartyTotalsCall(cursor, batch_end),
                                      TotalsCall(cursor, batch_end)>>
                /\ csv_file' =
                      [csv_file EXCEPT !.lines =
                          opened \o [i \in DOMAIN entries |-> party_row(entries[i], dict)]]
                /\ total_scanned' = total_scanned + Len(entries)
    /\ cursor' = cursor + args.step
    /\ UNCHANGED <<ledger, latest_round, op, args, pc, left, right, first_in_month,
                   last_in_month, rounds, round_to_effective_time, results, probes,
                   feed, begin_after_id, max_receivers, max_balance_changes,
                   all_flattened, raised,
                   failed, previous>>

\* The batch loop has ended and the file is closed.
PartyTotalsReturn ==
    /\ pc = "party_batches"
    /\ cursor > latest_round
    /\ pc' = "done"
    /\ UNCHANGED <<ledger, latest_round, op, args, left, right, first_in_month,
                   last_in_month, rounds, round_to_effective_time, cursor, results,
                   calls, probes, export_vars>>

\* --------------- specification of the operations that need the latest round
\* batch_size of export_all_round_party_totals_to_csv
PartyBatchSizes == {1, 50}

FindShort ==
    /\ op = "find"
    /\ \E y \in Years, m \in Months : args = [NoArgs EXCEPT !.year = y, !.month = m]
    /\ pc = "find"

\* get_latest_wallet_balance(party_id)
InitLatestBalance ==
    /\ op = "latest_balance"
    /\ \E p \in Parties : args = [NoArgs EXCEPT !.party_id = p]
    /\ pc = "latest_balance"

\* get_wallet_balance_last_10_rounds(party_id, csv)
InitLast10 ==
    /\ op = "last10"
    /\ \E p \in Parties, c \in BOOLEAN :
          args = [NoArgs EXCEPT !.party_id = p, !.csv = c]
    /\ pc = "last10"

\* export_all_round_party_totals_to_csv(csv_path, start_round, batch_size)
InitPartyTotals ==
    /\ op = "party_totals"
    /\ \E a \in FirstRounds, n \in PartyBatchSizes :
          args = [NoArgs EXCEPT !.first_round = a, !.step = n]
    /\ pc = "party_totals"

InitLatest ==
    /\ InitCommon
    /\ ledger \in ShortLedgers
    /\ cursor = None
    /\ feed = <<>>
    /\ begin_after_id = EmptyStr
    /\ total_scanned = 0
    /\ max_receivers = 0 /\ max_balance_changes = 0
    /\ all_flattened = <<>>
    /\ csv_file \in {NoFile, OldFile}
    /\ raised = NotRaised
    /\ failed = 0
    /\ previous = NoPrevious
    /\ (FindShort \/ InitLatestBalance \/ InitLast10 \/ InitPartyTotals)

NextLatest ==
    \/ FindStart
    \/ Search1Probe
    \/ Search1Exit
    \/ Search2Probe
    \/ FindReturn
    \/ LatestBalance
    \/ Last10Start
    \/ Last10Sample
    \/ Last10Return
    \/ PartyTotalsStart
    \/ PartyTotalsBatch
    \/ PartyTotalsReturn

SpecLatest == InitLatest /\ [][NextLatest]_vars

\* ------------------------------------------------ failing Gateway requests
\* The try block of get_effective_at_dt catches everything inside it.
try_covers_all(site) == TRUE

\* What the only try block of these operations covers: the fromisoformat
\* parse, not the get_effective_at lookup on the line before it.
try_covers(site) == site = "fromisoformat"

\* The request raises and nothing catches it: the call of the operation ends.
Uncaught(call) ==
    /\ calls' = Append(calls, call)
    /\ failed' = Len(calls) + 1
    /\ raised' = "GatewayError"
    /\ pc' = "raised"

\* get_round_of_latest_data() raises in find_rounds_for_month.
FindStartFails ==
    /\ pc = "find"
    /\ Uncaught(LatestCall)
    /\ UNCHANGED <<ledger, latest_round, op, args, left, right, first_in_month,
                   last_in_month, rounds, round_to_effective_time, cursor, results,
                   probes, feed, begin_after_id, total_scanned, max_receivers,
                   max_balance_changes, all_flattened, csv_file, previous>>

\* The request of get_effective_at(mid) raises in the first binary search.
Search1ProbeFails ==
    /\ pc = "search1"
    /\ left <= right
    /\ LET mid == (left + right) \div 2
           nxt == search1_step(left, right, first_in_month, mid, None,
                               args.year, args.month)
       IN  IF try_covers("get_effective_at")
           THEN /\ calls' = Append(calls, ProbeCall(mid))
                /\ failed' = Len(calls) + 1
                /\ left' = nxt.left
                /\ right' = nxt.right
                /\ first_in_month' = nxt.found
                /\ UNCHANGED <<pc, raised>>
           ELSE /\ Uncaught(ProbeCall(mid))
                /\ UNCHANGED <<left, right, first_in_month>>
    /\ UNCHANGED <<ledger, latest_round, op, args, last_in_month, rounds,
                   round_to_effective_time, cursor, results, probes, feed,
                   begin_after_id, total_scanned, max_receivers,
                   max_balance_changes, all_flattened, csv_file, previous>>

\* The request of get_effective_at(mid) raises in the second binary search.
Search2ProbeFails ==
    /\ pc = "search2"
    /\ left <= right
    /\ LET mid == (left + right) \div 2
           nxt == search2_step(left, right, last_in_month, mid, None,
                               args.year, args.month)
       IN  IF try_covers("get_effective_at")
           THEN /\ calls' = Append(calls, ProbeCall(mid))
                /\ failed' = Len(calls) + 1
                /\ left' = nxt.left
                /\ right' = nxt.right
                /\ last_in_month' = nxt.found
                /\ UNCHANGED <<pc, raised>>
           ELSE /\ Uncaught(ProbeCall(mid))
                /\ UNCHANGED <<left, right, last_in_month>>
    /\ UNCHANGED <<ledger, latest_round, op, args, first_in_month, rounds,
                   round_to_effective_time, cursor, results, probes, feed,
                   begin_after_id, total_scanned, max_receivers,
                   max_balance_changes, all_flattened, csv_file, previous>>

\* One of the two final lookups raises: the dict is not built.
FindReturnFails ==
    /\ pc = "search2"
    /\ left > right
    /\ \E k \in 1..2 :
          LET requests == final_calls(first_in_month, last_in_month, latest_round)
          IN  /\ calls' = calls \o SubSeq(requests, 1, k)
              /\ failed' = Len(calls) + k
              /\ probes' = IF k = 1 THEN probes
                           ELSE Append(probes, ProbeRecord(0, first_in_month))
    /\ raised' = "GatewayError"
    /\ pc' = "raised"
    /\ UNCHANGED <<ledger, latest_round, op, args, left, right, first_in_month,
                   last_in_month, rounds, round_to_effective_time, cursor, results,
                   feed, begin_after_id, total_scanned, max_receivers,
                   max_balance_changes, all_flattened, csv_file, previous>>

\* list_round_totals raises in the bulk lookup of get_wallet_balances_for_rounds.
BulkBatchFails ==
    /\ pc = "bulk"
    /\ cursor <= args.last_round
    /\ Uncaught(TotalsCall(cursor, bulk_end(cursor, args.last_round)))
    /\ UNCHANGED <<ledger, latest_round, op, args, left, right, first_in_month,
                   last_in_month, rounds, round_to_effective_time, cursor, results,
                   probes, feed, begin_after_id, total_scanned, max_receivers,
                   max_balance_changes, all_flattened, csv_file, previous>>

\* get_wallet_balance raises in the sample loop: the rows so far are dropped
\* with the frame, nothing is returned.
SampleFails ==
    /\ pc = "samples"
    /\ cursor <= args.last_round
    /\ Uncaught(BalanceCall(args.party_id, cursor))
    /\ UNCHANGED <<ledger, latest_round, op, args, left, right, first_in_month,
                   last_in_month, rounds, round_to_effective_time, cursor, results,
                   probes, feed, begin_after_id, total_scanned, max_receivers,
                   max_balance_changes, all_flattened, csv_file, previous>>

\* The output file is opened before pass 1: a failing request leaves it
\* truncated.
ExportPageFailsFileOpen ==
    /\ pc = "pass1"
    /\ Uncaught(ActivityCall(args.page_size, begin_after_id))
    /\ csv_file' = [exists |-> TRUE, lines |-> <<>>]
    /\ UNCHANGED <<ledger, latest_round, op, args, left, right, first_in_month,
                   last_in_month, rounds, round_to_effective_time, cursor, results,
                   probes, feed, begin_after_id, total_scanned, max_receivers,
                   max_balance_changes, all_flattened, previous>>

\* list_activity raises in pass 1 of export_activities_after: the output
\* file has not been opened yet.
ExportPageFails ==
    /\ pc = "pass1"
    /\ Uncaught(ActivityCall(args.page_size, begin_after_id))
    /\ UNCHANGED <<ledger, latest_round, op, args, left, right, first_in_month,
                   last_in_month, rounds, round_to_effective_time, cursor, results,
                   probes, feed, begin_after_id, total_scanned, max_receivers,
                   max_balance_changes, all_flattened, csv_file, previous>>

\* ------------------------ specification of the operations under failures
InitFail ==
    \/ InitExport
    \/ /\ InitCommon
       /\ InitNoExport
       /\ \/ FindShort /\ ledger \in ShortLedgers /\ cursor = None
          \/ InitRounds

NextFail ==
    \/ FindStart
    \/ Search1Probe
    \/ Search1Exit
    \/ Search2Probe
    \/ FindReturn
    \/ BulkBatch
    \/ BulkExit
    \/ Sample
    \/ SamplesReturn
    \/ ExportPage
    \/ WriteHeader
    \/ WriteRow
    \/ WriteDone
    \/ FindStartFails
    \/ Search1ProbeFails
    \/ Search2ProbeFails
    \/ FindReturnFails
    \/ BulkBatchFails
    \/ SampleFails
    \/ ExportPageFails

SpecFail == InitFail /\ [][NextFail]_vars

\* ------------- specification over malformed, unordered and multi-field data
MaxWild == 3        \* longest tail of a ledger with arbitrary entries

\* A timestamp fromisoformat rejects: month 13, hour 40.
MalformedTimes == {2024130140}
WildTimes == {2024033023, 2024040100} \cup MalformedTimes

\* Entries that carry their time under the second or third key, under
\* several keys at once, or carry empty strings.
FieldShapes ==
    {Shape(TRUE, None, None, 2024040100),
     Shape(TRUE, EmptyStr, 2024040100, 2024033023),
     Shape(TRUE, 2024040201, 2024033023, 2024040100),
     Shape(TRUE, EmptyStr, EmptyStr, EmptyStr)}

WildShapes == {Absent, NoTime} \cup {At(t) : t \in WildTimes} \cup FieldShapes

\* Ledgers with no constraint on the order or the form of the effective times.
WildBases == {0, 6}
WildLedgers ==
    {[base |-> b, prefix |-> (IF b = 0 THEN Absent ELSE At(2024040100)), tail |-> tl] :
        b \in WildBases, tl \in SeqsUpTo(WildShapes, MaxWild)}

WildSeries ==
    {i \in {[NoArgs EXCEPT !.party_id = "alice", !.first_round = 0,
                           !.last_round = n - 1, !.step = st] :
                n \in {2, 12}, st \in {1, 10}} :
        i.last_round - i.first_round < MaxSamples * i.step}

InitWild ==
    /\ InitCommon
    /\ InitNoExport
    /\ ledger \in WildLedgers
    /\ \/ /\ op = "find"
          /\ \E m \in Months : args = [NoArgs EXCEPT !.year = 2024, !.month = m]
          /\ pc = "find"
          /\ cursor = None
       \/ /\ op = "rounds"
          /\ args \in WildSeries
          /\ pc = "bulk"
          /\ cursor = args.first_round
       \/ /\ op = "last10"
          /\ args = [NoArgs EXCEPT !.party_id = "bob"]
          /\ pc = "last10"
          /\ cursor = None
       \/ /\ op = "party_totals"
          /\ \E n \in PartyBatchSizes :
                args = [NoArgs EXCEPT !.first_round = 0, !.step = n]
          /\ pc = "party_totals"
          /\ cursor = None

NextWild ==
    \/ FindStart
    \/ Search1Probe
    \/ Search1Exit
    \/ Search2Probe
    \/ FindReturn
    \/ BulkBatch
    \/ BulkExit
    \/ Sample
    \/ SamplesReturn
    \/ Last10Start
    \/ Last10Sample
    \/ Last10Return
    \/ PartyTotalsStart
    \/ PartyTotalsBatch
    \/ PartyTotalsReturn

SpecWild == InitWild /\ [][NextWild]_vars

\* find_rounds_for_month alone, over ledgers whose rounds lie before, in or
\* after April 2024 in any order, or are unresolved; the call runs on: a step
\* that can be taken is taken.
SearchShapes ==
    {NoTime} \cup {At(t) : t \in {2024033023, 2024040100, 2024050100} \cup MalformedTimes}

SearchLedgers ==
    {[base |-> b, prefix |-> (IF b = 0 THEN Absent ELSE At(2024040100)), tail |-> tl] :
        b \in WildBases, tl \in SeqsUpTo(SearchShapes, MaxWild)}

InitSearch ==
    /\ InitCommon
    /\ InitNoExport
    /\ ledger \in SearchLedgers
    /\ op = "find"
    /\ args = [NoArgs EXCEPT !.year = 2024, !.month = 4]
    /\ pc = "find"
    /\ cursor = None

NextSearch ==
    \/ FindStart
    \/ Search1Probe
    \/ Search1Exit
    \/ Search2Probe
    \/ FindReturn

SpecSearchLive == InitSearch /\ [][NextSearch]_vars /\ WF_vars(NextSearch)

\* ------------------------------------------- the same call made a second time
\* The cursor of the call before is carried over.
first_cursor_kept(id) == id

\* begin_after_id = "" at the start of pass 1, whatever it was before.
first_cursor(id) == EmptyStr

\* Where each operation starts.
EntryPc == IF op = "find" THEN "find" ELSE IF op = "rounds" THEN "bulk" ELSE "pass1"

\* The call has returned and is made again with the same arguments against
\* the same Gateway data: what it issued, returned and wrote is kept for
\* comparison, its locals are initialised anew, the file on disk stays.
CallAgain ==
    /\ pc = "done"
    /\ ~previous.ran
    /\ previous' = [ran |-> TRUE, latest_round |-> latest_round, calls |-> calls,
                    results |-> results, rounds |-> rounds, csv_file |-> csv_file]
    /\ pc' = EntryPc
    /\ calls' = <<>>
    /\ probes' = <<>>
    /\ latest_round' = None
    /\ left' = None /\ right' = None
    /\ first_in_month' = None /\ last_in_month' = None
    /\ rounds' = NoRounds
    /\ round_to_effective_time' = <<>>
    /\ results' = <<>>
    /\ cursor' = IF op = "rounds" THEN args.first_round ELSE None
    /\ begin_after_id' = first_cursor(begin_after_id)
    /\ total_scanned' = 0
    /\ max_receivers' = 0 /\ max_balance_changes' = 0
    /\ all_flattened' = <<>>
    /\ UNCHANGED <<ledger, op, args, feed, csv_file, raised, failed>>

InitRepeat ==
    \/ InitExport
    \/ /\ InitCommon
       /\ InitNoExport
       /\ \/ FindShort /\ ledger \in ShortLedgers /\ cursor = None
          \/ InitRounds

NextRepeat ==
    \/ FindStart
    \/ Search1Probe
    \/ Search1Exit
    \/ Search2Probe
    \/ FindReturn
    \/ BulkBatch
    \/ BulkExit
    \/ Sample
    \/ SamplesReturn
    \/ ExportPage
    \/ WriteHeader
    \/ WriteRow
    \/ WriteDone
    \/ CallAgain

SpecRepeat == InitRepeat /\ [][NextRepeat]_vars

\* ------------------------------------------------------------ claims
\* The ledger as it is, read without the client's lookups.
TrueTime(r) == ShapeTime(RoundShape(ledger, r))
Resolved(r) == ShapeResolved(RoundShape(ledger, r))
AllRounds == 0..LastRound(ledger)
FullyResolved == \A r \in AllRounds : Resolved(r)

\* [month_start, month_end) of the target month, as instants.
MonthStart(y, m) == y * 1000000 + m * 10000 + 100
MonthEnd(y, m) == IF m = 12 THEN MonthStart(y + 1, 1) ELSE MonthStart(y, m + 1)
InTargetMonth(t) ==
    /\ MonthStart(args.year, args.month) <= t
    /\ t < MonthEnd(args.year, args.month)
RoundsInMonth == {r \in AllRounds : Resolved(r) /\ InTargetMonth(TrueTime(r))}

\* find_rounds_for_month has returned (to its caller, or to the user).
FindReturned == op # "rounds" /\ pc \notin {"find", "search1", "search2"}

ProbesOf(search) == {i \in DOMAIN probes : probes[i].search = search}

\* C1: with every round of [0, latest_round] resolved and the timestamps
\* non-decreasing, a non-None result of find_rounds_for_month has start_round
\* equal to the smallest round whose effective time falls in (year, month).
C1_StartIsFirstOfMonth ==
    (FindReturned /\ rounds.found /\ FullyResolved)
        => /\ rounds.start_round \in RoundsInMonth
           /\ \A r \in RoundsInMonth : rounds.start_round <= r

C1_Witness ==
    /\ FindReturned /\ rounds.found /\ FullyResolved
    /\ ledger.base > batch_size
    /\ rounds.start_round > ledger.base
    /\ rounds.start_round - 1 \notin RoundsInMonth

\* C2: under the same conditions a non-None result has end_round equal to the
\* largest round whose effective time falls in (year, month), and every probe
\* of the second search lies in [start_round, latest_round].
C2_EndIsLastOfMonth ==
    (FindReturned /\ rounds.found /\ FullyResolved)
        => /\ rounds.end_round \in RoundsInMonth
           /\ \A r \in RoundsInMonth : r <= rounds.end_round
           /\ \A i \in ProbesOf(2) :
                 /\ rounds.start_round <= probes[i].round
                 /\ probes[i].round <= latest_round

C2_Witness ==
    /\ FindReturned /\ rounds.found /\ FullyResolved
    /\ rounds.start_round < rounds.end_round
    /\ rounds.end_round < latest_round
    /\ \E i \in ProbesOf(2) : probes[i].round > rounds.end_round

\* C3 as stated: whenever a closed round has its effective time in the target
\* month, find_rounds_for_month yields first_round <= last_round with both
\* effective times within [month_start, month_end).
C3_AsStated ==
    (FindReturned /\ latest_round # None /\ RoundsInMonth # {})
        => /\ rounds.found
           /\ rounds.start_round <= rounds.end_round
           /\ InTargetMonth(rounds.start_time)
           /\ InTargetMonth(rounds.end_time)

\* C3 (amended): every non-None result has first_round <= last_round with both
\* effective times within [month_start, month_end); and when every round is
\* resolved and a closed round lies in the month, the result is not None.
C3_ResultWithinMonth ==
    FindReturned
        => /\ rounds.found
              => /\ rounds.start_round <= rounds.end_round
                 /\ InTargetMonth(rounds.start_time)
                 /\ InTargetMonth(rounds.end_time)
           /\ (latest_round # None /\ FullyResolved /\ RoundsInMonth # {})
              => rounds.found

C3_Witness ==
    /\ FindReturned /\ rounds.found
    /\ ~FullyResolved
    /\ InTargetMonth(rounds.start_time)
    /\ \E r \in RoundsInMonth : r < rounds.start_round

ProbeHit(i) ==
    /\ Truthy(probes[i].at)
    /\ IsoValid(probes[i].at)
    /\ IsoYear(probes[i].at) = args.year
    /\ IsoMonth(probes[i].at) = args.month

\* C4: find_rounds_for_month returns None exactly when no probe of the first
\* search resolves to a timestamp of the target (year, month), in particular
\* when no round lies in the month; then the second search and the final
\* lookups are not run.  Otherwise it returns start_round, start_time,
\* end_round, end_time of the two rounds found.
C4_NoneIffNoProbeHit ==
    FindReturned
        => /\ ~rounds.found <=> (\A i \in ProbesOf(1) : ~ProbeHit(i))
           /\ RoundsInMonth = {} => ~rounds.found
           /\ ~rounds.found
              => rounds = NoRounds /\ ProbesOf(2) = {} /\ ProbesOf(0) = {}
           /\ rounds.found
              => /\ rounds.start_round = first_in_month
                 /\ rounds.end_round = last_in_month
                 /\ rounds.start_time = TrueTime(first_in_month)
                 /\ rounds.end_time = TrueTime(last_in_month)

\* The target month lies entirely before the earliest round.
C4_Witness ==
    /\ FindReturned /\ ~rounds.found
    /\ Len(probes) > 1
    /\ \E r \in AllRounds : Resolved(r)
    /\ \A r \in AllRounds :
          Resolved(r) => TrueTime(r) >= MonthEnd(args.year, args.month)

\* Rounds 100..105 only, from 2024-03-30T23:00Z to 2024-04-02T01:00Z; (2024, 4).
Scenario105 ==
    /\ ledger.base = 100 /\ ledger.prefix = Absent /\ Len(ledger.tail) = 6
    /\ \A i \in DOMAIN ledger.tail : ShapeResolved(ledger.tail[i])
    /\ ledger.tail[1] = At(2024033023)
    /\ ledger.tail[6] = At(2024040201)
    /\ args.year = 2024 /\ args.month = 4

\* C5: when round latest_round is resolved and lies in the target month, a
\* non-None result has end_round = latest_round; in the scenario of rounds
\* 100..105 the result is the first round at or after 2024-04-01T00:00Z and 105.
C5_OpenMonthEndsAtLatest ==
    (FindReturned /\ latest_round # None)
        => /\ (/\ rounds.found
               /\ Resolved(latest_round)
               /\ InTargetMonth(TrueTime(latest_round)))
              => rounds.end_round = latest_round
           /\ Scenario105
              => /\ rounds.found
                 /\ rounds.end_round = 105
                 /\ TrueTime(rounds.start_round) >= 2024040100
                 /\ \A r \in 100..(rounds.start_round - 1) : TrueTime(r) < 2024040100

C5_Witness ==
    /\ FindReturned /\ rounds.found /\ Scenario105
    /\ rounds.start_round \in 101..104

\* The ledger has an effective time for round r.
HasTime(r) ==
    RoundShape(ledger, r).present /\ Truthy(ShapeTime(RoundShape(ledger, r)))

\* C6: a single-round lookup of a round without an entry, or whose entry has no
\* effective-time field, returns None; in the bulk lookups such a round is
\* missing from the dictionary and its sample has effective_time = None.
C6_MissingRoundIsUnknown ==
    /\ \A i \in DOMAIN probes : ~HasTime(probes[i].round) => probes[i].at = None
    /\ op \in {"month", "rounds"}
       => /\ \A r \in DOMAIN round_to_effective_time : HasTime(r)
          /\ \A i \in DOMAIN results :
                ~HasTime(results[i].round) => results[i].effective_time = None

\* A probe of a round whose entry has no effective-time field, in a search
\* that went on and found the month.
C6_Witness ==
    /\ FindReturned /\ rounds.found
    /\ \E i \in DOMAIN probes :
          /\ RoundShape(ledger, probes[i].round) = NoTime
          /\ probes[i].at = None
    /\ \E i \in DOMAIN probes : RoundShape(ledger, probes[i].round) = Absent

\* A sample of a round without an entry and one of an entry without a time.
C6_BulkReached ==
    /\ op = "rounds" /\ pc = "done"
    /\ \E i \in DOMAIN results :
          /\ RoundShape(ledger, results[i].round) = NoTime
          /\ results[i].effective_time = None
    /\ \E i \in DOMAIN results : HasTime(results[i].round)

IsTotals(c) == c.api = "round_totals"
IsBalance(c) == c.api = "wallet_balance"

\* The requests issued by find_rounds_for_month after round_of_latest_data,
\* and the requests issued after it by its caller (by the series itself).
FindCalls == IF op = "rounds" THEN <<>> ELSE SubSeq(calls, 2, Len(probes) + 1)
LaterCalls ==
    IF op = "rounds" THEN calls ELSE SubSeq(calls, Len(probes) + 2, Len(calls))

\* C7 as stated: during one call of find_rounds_for_month no window is
\* requested twice.
C7_AsStated ==
    \A i, j \in DOMAIN FindCalls : i < j => FindCalls[i] # FindCalls[j]

\* C7 (amended): every probe and every final lookup issues its own round_totals
\* request for a window holding the round looked up, so the number of requests
\* is the number of probes plus the two final lookups.
C7_OneRequestPerLookup ==
    op # "rounds"
        => /\ pc \in {"search1", "search2"} \/ op = "find"
              => Len(calls) = (IF pc = "find" THEN 0 ELSE Len(probes) + 1)
           /\ Len(calls) >= Len(FindCalls)
           /\ \A i \in DOMAIN probes :
                 /\ IsTotals(calls[i + 1])
                 /\ calls[i + 1].a <= probes[i].round
                 /\ probes[i].round <= calls[i + 1].b
           /\ FindReturned
              => Cardinality(ProbesOf(0)) = (IF rounds.found THEN 2 ELSE 0)

C7_Witness ==
    /\ FindReturned /\ rounds.found
    /\ \E i, j \in DOMAIN FindCalls : i < j /\ FindCalls[i] = FindCalls[j]
    /\ \E i, j \in DOMAIN FindCalls : FindCalls[i].a # FindCalls[j].a

\* C8 as stated: every round_totals request, of the resolver and of the bulk
\* lookups, asks for a window aligned to 200 and cut at the latest round.
C8_AsStated ==
    \A i \in DOMAIN calls :
        IsTotals(calls[i])
            => /\ calls[i].a % 200 = 0
               /\ calls[i].b = Min(calls[i].a + 199, LastRound(ledger))

BulkCalls == SelectSeq(LaterCalls, IsTotals)

\* C8 (amended): the single-round lookup of find_rounds_for_month for round r
\* asks for [floor(r/200)*200, min(floor(r/200)*200 + 199, latest_round)]; the
\* k-th request of a bulk lookup over [a, b] asks for
\* [a + 200(k-1), min(a + 200(k-1) + 199, b)].
C8_RequestedWindows ==
    /\ \A i \in DOMAIN probes :
          /\ calls[i + 1].a = 200 * (probes[i].round \div 200)
          /\ calls[i + 1].b =
                Min(200 * (probes[i].round \div 200) + 199, latest_round)
    /\ \A k \in DOMAIN BulkCalls :
          /\ BulkCalls[k].a = args.first_round + 200 * (k - 1)
          /\ BulkCalls[k].b =
                Min(args.first_round + 200 * (k - 1) + 199, args.last_round)

C8_Witness ==
    /\ op = "month" /\ pc = "done"
    /\ \E k \in DOMAIN BulkCalls : BulkCalls[k].a % 200 # 0
    /\ \E i \in DOMAIN probes : calls[i + 1].b = latest_round

\* The rounds a, a + step, a + 2*step, ... that are <= b.
Stride(a, b, step) == IF a > b THEN 0 ELSE (b - a) \div step + 1

\* C9: get_wallet_balances_for_rounds(party, a, b, step) returns, in ascending
\* order, one sample for each round a, a+step, a+2*step, ... <= b, each with
\* the balance the Gateway reports for that round, and issues one balance query
\* per sample; [50, 60] with step 10 yields the samples of rounds 50 and 60.
C9_SeriesSamples ==
    (op = "rounds" /\ pc = "done")
        => /\ Len(results) = Stride(args.first_round, args.last_round, args.step)
           /\ \A i \in DOMAIN results :
                 /\ results[i].round = args.first_round + (i - 1) * args.step
                 /\ results[i].round <= args.last_round
                 /\ results[i].wallet_balance =
                       get_wallet_balance(ledger, args.party_id,
                                          results[i].round).wallet_balance
           /\ Len(SelectSeq(calls, IsBalance)) = Len(results)
           /\ \A i \in DOMAIN results :
                 SelectSeq(calls, IsBalance)[i] =
                     BalanceCall(args.party_id, results[i].round)
           /\ (/\ args.party_id = "alice" /\ args.first_round = 50
               /\ args.last_round = 60 /\ args.step = 10)
              => /\ Len(results) = 2
                 /\ results[1].round = 50 /\ results[1].wallet_balance = 100
                 /\ results[2].round = 60 /\ results[2].wallet_balance = 150

C9_Witness ==
    /\ op = "rounds" /\ pc = "done"
    /\ args.party_id = "alice" /\ args.first_round = 50
    /\ args.last_round = 60 /\ args.step = 10
    /\ Len(results) = 2

\* A stride that does not land on b.
C9_StrideSkipsLast ==
    /\ op = "rounds" /\ pc = "done"
    /\ Len(results) > 1
    /\ results[Len(results)].round < args.last_round

\* C10: get_wallet_balances_for_month_from_rounds_estimate resolves the month
\* once and then, for each party in input order, issues two balance queries,
\* at start_round and at end_round, and emits one row; no other round is
\* queried (and nothing is queried when the month is not resolved).
C10_TwoEndpointsPerParty ==
    (op = "estimate" /\ pc = "done")
        => /\ calls[1] = LatestCall
           /\ \A i \in DOMAIN calls : calls[i] = LatestCall => i = 1
           /\ LaterCalls = SelectSeq(calls, IsBalance)
           /\ ~rounds.found => LaterCalls = <<>> /\ results = <<>>
           /\ rounds.found
              => /\ Len(results) = Len(args.party_ids)
                 /\ Len(LaterCalls) = 2 * Len(args.party_ids)
                 /\ \A i \in DOMAIN args.party_ids :
                       /\ results[i].party_id = args.party_ids[i]
                       /\ results[i].beginning_of_month_round = rounds.start_round
                       /\ results[i].end_of_month_round = rounds.end_round
                       /\ LaterCalls[2 * i - 1] =
                             BalanceCall(args.party_ids[i], rounds.start_round)
                       /\ LaterCalls[2 * i] =
                             BalanceCall(args.party_ids[i], rounds.end_round)

C10_Witness ==
    /\ op = "estimate" /\ pc = "done"
    /\ rounds.found
    /\ rounds.start_round + 1 < rounds.end_round
    /\ Len(args.party_ids) = 2
    /\ args.party_ids[1] # args.party_ids[2]

\* ------------------------------------- claims on export_activities_after
Exporting == op = "export"
Pass1Ended == Exporting /\ pc \in {"pass2", "rows", "done"}
FileWritten == Exporting /\ pc \in {"rows", "done"}

\* The feed as it is, read without the client.
DateBefore(a) ==
    "date" \in DOMAIN a /\ a.date # EmptyStr /\ a.date < args.after_timestamp
OldRecords == {i \in DOMAIN feed : DateBefore(feed[i])}
FirstOld ==
    IF OldRecords = {} THEN Len(feed) + 1
    ELSE CHOOSE i \in OldRecords : \A j \in OldRecords : i <= j

\* The positions of the feed returned to the k-th request.
PageOf(k) ==
    LET first == (IF calls[k].a = EmptyStr THEN 0 ELSE calls[k].a) + 1
    IN  first..Min(first + calls[k].b - 1, Len(feed))

\* C11: in pass 1 the first record whose date is less than the cutoff ends
\* the scan: the buffer holds records that precede it in the feed, in feed
\* order, and the request whose page holds it is the last request.
C11_FirstOldRecordEndsScan ==
    Exporting
        => /\ Len(all_flattened) < FirstOld
           /\ \A i \in DOMAIN all_flattened : all_flattened[i] = feed[i]
           /\ \A k \in DOMAIN calls :
                 FirstOld \in PageOf(k) => k = Len(calls) /\ Pass1Ended

\* The record after the first old record lies on a page never requested.
C11_Witness ==
    /\ Exporting /\ pc = "done"
    /\ FirstOld = 2 /\ Len(feed) = 3 /\ ~DateBefore(feed[3])
    /\ Len(calls) = 2 /\ args.page_size = 1
    /\ Len(all_flattened) = 1

\* C12: the first activities request carries the empty cursor, every later
\* request the event_id of the last record of the page returned to the
\* request before it.
C12_CursorProtocol ==
    Exporting
        => /\ \A k \in DOMAIN calls :
                 /\ calls[k].api = "activities"
                 /\ calls[k].b = args.page_size
           /\ calls # <<>> => calls[1].a = EmptyStr
           /\ \A k \in 1..(Len(calls) - 1) :
                 /\ PageOf(k) # {}
                 /\ "event_id" \in DOMAIN feed[Min(k * args.page_size, Len(feed))]
                 /\ PageOf(k) = ((k - 1) * args.page_size + 1)..
                                    Min(k * args.page_size, Len(feed))
                 /\ calls[k + 1].a =
                       feed[Min(k * args.page_size, Len(feed))].event_id

C12_Witness ==
    /\ Exporting /\ pc = "done"
    /\ Len(calls) = 3 /\ args.page_size = 2
    /\ calls[3].a = 3

\* C13: a page without records ends the page loop at once; with an empty feed
\* the export issues exactly one request and ends, without raising, with a
\* file holding a header line of no columns and no data row.
C13_EmptyPageEndsLoop ==
    Exporting
        => /\ \A k \in DOMAIN calls :
                 PageOf(k) = {} => k = Len(calls) /\ Pass1Ended
           /\ feed = <<>>
              => /\ Len(calls) <= 1
                 /\ all_flattened = <<>>
                 /\ raised = NotRaised
                 /\ pc # "done" => ENABLED NextExport
                 /\ pc = "done"
                    => /\ Len(calls) = 1
                       /\ csv_file = [exists |-> TRUE,
                                      lines |-> <<[kind |-> "header", cells |-> <<>>]>>]

C13_Witness ==
    /\ Exporting /\ pc = "done"
    /\ feed = <<>>
    /\ Len(calls) = 1
    /\ Len(csv_file.lines) = 1

\* An export that read a full feed and ended on the empty page after it.
C13_EmptyLastPage ==
    /\ Exporting /\ pc = "done"
    /\ Len(feed) = 2 /\ Len(calls) = 3 /\ PageOf(3) = {}

\* The length of a list of the record's transfer, 0 without a transfer.
TrueLen(a, key) == IF "transfer" \in DOMAIN a THEN Len(a.transfer[key]) ELSE 0
MaxOver(S) == IF S = {} THEN 0 ELSE CHOOSE x \in S : \A y \in S : y <= x

\* Every record has an event_id and a non-empty date.
WellFormedFeed ==
    \A i \in DOMAIN feed :
        /\ "event_id" \in DOMAIN feed[i]
        /\ "date" \in DOMAIN feed[i] /\ feed[i].date # EmptyStr
StrictlyNewer == {i \in DOMAIN feed : feed[i].date > args.after_timestamp}

\* C14 as stated: at the end of pass 1 max_receivers and max_balance_changes
\* are the largest length of transfer.receivers and transfer.balance_changes
\* over the feed records strictly newer than the cutoff, 0 when there is none.
C14_AsStated ==
    (Pass1Ended /\ WellFormedFeed)
        => /\ max_receivers =
                 MaxOver({TrueLen(feed[i], "receivers") : i \in StrictlyNewer})
           /\ max_balance_changes =
                 MaxOver({TrueLen(feed[i], "balance_changes") : i \in StrictlyNewer})

\* The written records, in the order of their rows.
Written == SubSeq(all_flattened, 1, Len(csv_file.lines) - 1)

\* Records 0, 1, 2 with event_ids; record 2 is the first before the cutoff.
Scenario3 ==
    /\ Len(feed) = 3
    /\ \A i \in DOMAIN feed : "event_id" \in DOMAIN feed[i]
    /\ FirstOld = 3

\* C15 as stated: in the scenario the export writes exactly one row, that of
\* record 0, and the maxima of pass 1 are those of records 0 and 1.
C15_AsStated ==
    (Exporting /\ pc = "done" /\ Scenario3)
        => /\ Written = <<feed[1]>>
           /\ max_receivers =
                 Max(TrueLen(feed[1], "receivers"), TrueLen(feed[2], "receivers"))

\* C15 (amended): in the scenario the export writes exactly two rows, those of
\* records 0 and 1 in this order, and the maxima of pass 1 are those of
\* records 0 and 1: record 2 is neither counted nor buffered.
C15_TwoRowsBeforeOldRecord ==
    (Exporting /\ pc = "done" /\ Scenario3)
        => /\ Written = <<feed[1], feed[2]>>
           /\ Len(csv_file.lines) = 3
           /\ total_scanned = 2
           /\ max_receivers =
                 Max(TrueLen(feed[1], "receivers"), TrueLen(feed[2], "receivers"))
           /\ max_balance_changes =
                 Max(TrueLen(feed[1], "balance_changes"),
                     TrueLen(feed[2], "balance_changes"))

\* Record 2 holds the longest receivers list of the feed, record 1 a longer
\* one than record 0.
C15_Witness ==
    /\ Exporting /\ pc = "done" /\ Scenario3
    /\ TrueLen(feed[3], "receivers") > max_receivers
    /\ TrueLen(feed[2], "receivers") > TrueLen(feed[1], "receivers")
    /\ Len(csv_file.lines) = 3

\* C16 as stated: after_timestamp is exclusive, every written activity that
\* has a date has one strictly after after_timestamp.
C16_AsStated ==
    FileWritten
        => \A i \in DOMAIN Written :
              Truthy(get(Written[i], "date"))
                  => Written[i].date > args.after_timestamp

\* The place of a column name in Python's string order.
Columns == ColumnOrder(MaxLists)
ColumnRank == [c \in {Columns[i] : i \in DOMAIN Columns} |->
                  CHOOSE i \in DOMAIN Columns : Columns[i] = c]
Flat(i) == flatten(all_flattened[i], max_receivers, max_balance_changes)

\* C17: the file is opened once, after pass 1; its first line is the header,
\* every other line a row; the header lists, sorted and without duplicates,
\* the union of the keys of the flattened buffered records; the i-th row holds
\* the values of the i-th buffered record (the i-th record received) under
\* the header's columns, and every key of the row is a header column.
C17_HeaderOnceSortedUnion ==
    Exporting
        => /\ ~FileWritten => csv_file \in {NoFile, OldFile}
           /\ FileWritten
              => LET lines == csv_file.lines
                     header == lines[1].cells
                 IN  /\ csv_file.exists
                     /\ lines[1].kind = "header"
                     /\ \A i \in 2..Len(lines) : lines[i].kind = "row"
                     /\ {header[j] : j \in DOMAIN header} =
                           UNION {DOMAIN Flat(i) : i \in DOMAIN all_flattened}
                     /\ \A j \in 1..(Len(header) - 1) :
                           ColumnRank[header[j]] < ColumnRank[header[j + 1]]
                     /\ Len(lines) - 1 <= Len(all_flattened)
                     /\ pc = "done" => Len(lines) - 1 = Len(all_flattened)
                     /\ \A i \in 1..(Len(lines) - 1) :
                           LET flat == Flat(i)
                           IN  /\ all_flattened[i] = feed[i]
                               /\ DOMAIN flat \subseteq
                                      {header[j] : j \in DOMAIN header}
                               /\ Len(lines[i + 1].cells) = Len(header)
                               /\ \A j \in DOMAIN header :
                                     lines[i + 1].cells[j] =
                                         IF header[j] \in DOMAIN flat
                                         THEN csv_cell(header[j], flat[header[j]])
                                         ELSE ""

\* Two rows with different keys, the first without the columns of the second.
C17_Witness ==
    /\ Exporting /\ pc = "done"
    /\ Len(csv_file.lines) = 3
    /\ "transfer" \notin DOMAIN all_flattened[1]
    /\ "transfer" \in DOMAIN all_flattened[2]
    /\ "date" \in DOMAIN all_flattened[1]
    /\ Len(csv_file.lines[1].cells) > 8

ReceiverColumn(i, f) == "transfer_receivers_" \o ToString(i) \o "_" \o f
BalanceChangeColumn(i, f) == "transfer_balance_changes_" \o ToString(i) \o "_" \o f

\* The flattened row holds the fields of the elements of `list` and nulls in
\* the known columns of the indices from its length up to width - 1.
Padded(flat, list, width, known, col(_, _)) ==
    \A i \in 0..(width - 1) :
        IF i < Len(list)
        THEN \A f \in DOMAIN list[i + 1] :
                /\ col(i, f) \in DOMAIN flat
                /\ flat[col(i, f)] = list[i + 1][f]
        ELSE \A f \in known :
                /\ col(i, f) \in DOMAIN flat
                /\ flat[col(i, f)] = None

\* C18: for every buffered record with a transfer, the flattened row holds,
\* for each index below max_receivers, the fields of that receiver or, past
\* the end of the list, party, amount and receiver_fee as nulls; the same for
\* balance_changes, its three sub-fields and max_balance_changes.
C18_PaddedToGlobalWidth ==
    Pass1Ended
        => \A i \in DOMAIN all_flattened :
              "transfer" \in DOMAIN all_flattened[i]
                  => LET flat == Flat(i)
                     IN
                     /\ Padded(flat, all_flattened[i].transfer.receivers,
                               max_receivers,
                               {"party", "amount", "receiver_fee"}, ReceiverColumn)
                     /\ Padded(flat, all_flattened[i].transfer.balance_changes,
                               max_balance_changes,
                               {"party", "change_to_initial_amount_as_of_round_zero",
                                "change_to_holding_fees_rate"}, BalanceChangeColumn)

\* A record with one receiver in an export whose widest record has more.
C18_Witness ==
    /\ Exporting /\ pc = "done"
    /\ \E i \in DOMAIN all_flattened :
          /\ "transfer" \in DOMAIN all_flattened[i]
          /\ Len(all_flattened[i].transfer.receivers) = 1
          /\ max_receivers > 1
          /\ Len(all_flattened[i].transfer.balance_changes) = max_balance_changes
    /\ \E i \in DOMAIN all_flattened :
          /\ "transfer" \in DOMAIN all_flattened[i]
          /\ Len(all_flattened[i].transfer.balance_changes) = 0
          /\ max_balance_changes > 0

\* ------------------------- claims on failures and on a missing latest round
\* The latest-round request has been answered without a round.
NoLatestRound == calls # <<>> /\ calls[1] = LatestCall /\ latest_round = None
HasRaised == pc = "raised" /\ raised # NotRaised

\* C19 as stated: when the latest-round response carries no round, the
\* operation ends with a raised failure.
C19_AsStated == NoLatestRound => HasRaised

\* C19 (amended): without a round in the latest-round response
\* get_latest_wallet_balance raises ValueError, find_rounds_for_month returns
\* None, get_wallet_balance_last_10_rounds returns the empty list and
\* export_all_round_party_totals_to_csv returns without touching the file;
\* none of them issues a further request.  With a round, round 0 included,
\* none of them ends this way.
C19_OnlyLatestBalanceRaises ==
    /\ NoLatestRound
       => /\ calls = <<LatestCall>>
          /\ results = <<>>
          /\ csv_file \in {NoFile, OldFile}
          /\ op = "latest_balance" => pc = "raised" /\ raised = "ValueError"
          /\ op = "find" => pc = "done" /\ raised = NotRaised /\ rounds = NoRounds
          /\ op \in {"last10", "party_totals"} => pc = "done" /\ raised = NotRaised
    /\ (calls # <<>> /\ latest_round # None)
       => /\ raised = NotRaised /\ pc # "raised"
          /\ op \in {"latest_balance", "last10"} => Len(calls) > 1
          /\ op = "party_totals" => csv_file.exists /\ csv_file # OldFile
          /\ (op = "latest_balance" /\ pc = "done")
             => Len(results) = 1 /\ results[1].round = latest_round

\* get_wallet_balance_last_10_rounds has returned the empty list.
C19_Witness ==
    /\ op = "last10" /\ pc = "done"
    /\ NoLatestRound
    /\ results = <<>> /\ raised = NotRaised
    /\ LastRound(ledger) > 9

\* get_latest_wallet_balance has raised.
C19_LatestBalanceRaised ==
    op = "latest_balance" /\ NoLatestRound /\ HasRaised

\* C20: once a Gateway request has raised in find_rounds_for_month,
\* get_wallet_balances_for_rounds or export_activities_after, the operation
\* has ended with that failure: the failed request is the last request (it is
\* not retried and none follows it), no step of the operation can be taken,
\* and nothing was returned: find_rounds_for_month built no result and the
\* export did not open its output file.
C20_FailureEndsTheOperation ==
    /\ failed # 0
       => /\ pc = "raised" /\ raised = "GatewayError"
          /\ failed = Len(calls)
          /\ ~ENABLED NextFail
          /\ rounds = NoRounds
          /\ csv_file \in {NoFile, OldFile}
    /\ pc = "raised" => failed # 0
    /\ pc = "done" => raised = NotRaised

\* A request of the second search or a final lookup of find_rounds_for_month
\* has raised after earlier requests went through.
C20_Witness ==
    /\ op = "find" /\ pc = "raised"
    /\ failed > 2 /\ failed = Len(calls)
    /\ first_in_month # None
    /\ rounds = NoRounds

\* The bulk lookup went through and a sample request has raised.
C20_SampleFailed ==
    /\ op = "rounds" /\ pc = "raised"
    /\ calls[failed].api = "wallet_balance"
    /\ results # <<>>

\* The second page request of the export has raised.
C20_ExportFailed ==
    /\ op = "export" /\ pc = "raised"
    /\ failed = 2
    /\ all_flattened # <<>>

\* ------------------------------- claims on malformed and unordered data
SearchNo == IF pc = "search1" THEN 1 ELSE IF pc = "search2" THEN 2 ELSE None

\* The last probe, when it belongs to the search that is running.
LastProbe == probes[Len(probes)]
JustProbed == probes # <<>> /\ SearchNo # None /\ LastProbe.search = SearchNo

\* The probe found a timestamp that fromisoformat rejects.
ProbeMalformed(i) ==
    /\ probes[i].search \in {1, 2}
    /\ Truthy(probes[i].at)
    /\ ~IsoValid(probes[i].at)

\* C21 as stated: once a probed round carried a timestamp that cannot be
\* parsed, find_rounds_for_month has failed with an error.
C21_AsStated ==
    (\E i \in DOMAIN probes : ProbeMalformed(i)) => pc = "raised" /\ raised # NotRaised

\* C21 (amended): a probed round whose timestamp cannot be parsed is treated
\* as an unresolved round: nothing is raised, the search goes on to the right
\* of the probe (left = mid + 1) without taking the round as a candidate, and
\* a result that is returned carries parseable times only.
C21_MalformedProbeIsUnresolved ==
    /\ raised = NotRaised /\ pc # "raised"
    /\ (JustProbed /\ ProbeMalformed(Len(probes)))
       => /\ left = LastProbe.round + 1
          /\ first_in_month # LastProbe.round
          /\ last_in_month # LastProbe.round
    /\ (FindReturned /\ rounds.found)
       => /\ IsoValid(rounds.start_time) /\ IsoValid(rounds.end_time)
          /\ \A i \in DOMAIN probes :
                ProbeMalformed(i)
                    => probes[i].round \notin {rounds.start_round, rounds.end_round}

\* find_rounds_for_month has returned a result after a probe that met a
\* malformed timestamp.
C21_Witness ==
    /\ op = "find" /\ pc = "done" /\ rounds.found
    /\ \E i \in DOMAIN probes : ProbeMalformed(i)

\* ------------------------------------------------- claims on repeated calls
\* The Gateway answers the latest-round request of the second call as it
\* answered that of the first.
SameLatestAnswer == (op = "find" /\ calls # <<>>) => latest_round = previous.latest_round

C22_FindTwice ==
    /\ op = "find" /\ pc = "done" /\ previous.ran
    /\ rounds.found /\ rounds = previous.rounds

\* The series has been built twice.
C22_SeriesTwice ==
    /\ op = "rounds" /\ pc = "done" /\ previous.ran
    /\ Len(results) > 1 /\ results = previous.results

\* ------------------------------------- claims on the two binary searches
\* The probe of a binary search found no timestamp, or one that cannot be parsed.
ProbeUnresolved(i) ==
    /\ probes[i].search \in {1, 2}
    /\ ~(Truthy(probes[i].at) /\ IsoValid(probes[i].at))

FirstOfMonth == CHOOSE r \in RoundsInMonth : \A s \in RoundsInMonth : r <= s

\* The resolver has missed the first round of the month.
FirstOfMonthMissed ==
    /\ FindReturned /\ latest_round # None
    /\ RoundsInMonth # {}
    /\ ~rounds.found \/ rounds.start_round > FirstOfMonth

\* C23: in both binary searches an unresolved probe moves the left bound to
\* mid + 1; and over non-decreasing partial indexes the resolver returns None
\* or a start_round larger than the smallest resolved round of the month only
\* when a probe of the first search was unresolved with a resolved round of
\* the month to its left.
C23_UnresolvedProbeSkipsLeft ==
    /\ (JustProbed /\ ProbeUnresolved(Len(probes)))
       => /\ left = LastProbe.round + 1
          /\ right >= LastProbe.round
    /\ FirstOfMonthMissed
       => \E i \in ProbesOf(1) :
             /\ ProbeUnresolved(i)
             /\ \E r \in RoundsInMonth : r < probes[i].round

\* The resolver has returned None although a resolved round of the month
\* exists, hidden left of an unresolved probe.
C23_Witness ==
    /\ FirstOfMonthMissed /\ ~rounds.found
    /\ NonDecreasing(ledger.tail)
    /\ \E i \in ProbesOf(1) :
          ProbeUnresolved(i) /\ \E r \in RoundsInMonth : r < probes[i].round

\* The resolver has returned a start_round that is not the first of the month.
C23_LateStart ==
    /\ FirstOfMonthMissed /\ rounds.found
    /\ rounds.start_round > FirstOfMonth

\* ------------------------------------------- claims on the effective time
\* The effective time a round's entry stands for: the first of
\* closed_round_effective_at, effectiveAt, effective_at that is present and
\* not empty; None without an entry or without such a value.
Preferred(r) ==
    LET s == RoundShape(ledger, r)
    IN  IF ~s.present THEN None
        ELSE IF s.closed_round_effective_at \notin {None, EmptyStr}
        THEN s.closed_round_effective_at
        ELSE IF s.effectiveAt \notin {None, EmptyStr} THEN s.effectiveAt
        ELSE IF s.effective_at \notin {None, EmptyStr} THEN s.effective_at
        ELSE None

\* The effective_time cell of a row written by
\* export_all_round_party_totals_to_csv, seen from the ledger.
PreferredCell(r) == IF Preferred(r) = None THEN "" ELSE ToString(Preferred(r))

\* C24: the effective time taken from a round_totals entry is the first
\* non-empty value among closed_round_effective_at, effectiveAt and
\* effective_at, and an entry without one leaves its round unresolved (None);
\* this holds for every lookup of the resolver, for every row of
\* get_wallet_balances_for_rounds and of get_wallet_balance_last_10_rounds,
\* and for every row export_all_round_party_totals_to_csv writes.
C24_FixedPriorityEverywhere ==
    /\ \A i \in DOMAIN probes : probes[i].at = Preferred(probes[i].round)
    /\ (FindReturned /\ rounds.found)
       => /\ rounds.start_time = Preferred(rounds.start_round)
          /\ rounds.end_time = Preferred(rounds.end_round)
    /\ op \in {"rounds", "last10"}
       => /\ \A r \in DOMAIN round_to_effective_time :
                round_to_effective_time[r] = Preferred(r)
          /\ \A i \in DOMAIN results :
                results[i].effective_time = Preferred(results[i].round)
    /\ op = "party_totals"
       => \A i \in DOMAIN csv_file.lines :
             csv_file.lines[i].kind = "row"
                => \E r \in 0..LastRound(ledger) :
                      /\ csv_file.lines[i].cells[1] = ToString(r)
                      /\ csv_file.lines[i].cells[Len(PartyTotalsFields)] = PreferredCell(r)

\* A series row took its time from the second key because the first was
\* empty, and another row is unresolved because all three keys were empty.
C24_Witness ==
    /\ op \in {"rounds", "last10"} /\ pc = "done"
    /\ \E i \in DOMAIN results :
          LET s == RoundShape(ledger, results[i].round)
          IN  /\ s.closed_round_effective_at = EmptyStr
              /\ results[i].effective_time = s.effectiveAt
              /\ s.effectiveAt # s.effective_at
              /\ Truthy(s.effective_at)
    /\ \E i \in DOMAIN results :
          /\ RoundShape(ledger, results[i].round) =
                Shape(TRUE, EmptyStr, EmptyStr, EmptyStr)
          /\ results[i].effective_time = None

\* A resolver lookup took closed_round_effective_at over the two other keys.
C24_ProbedFirstKey ==
    \E i \in DOMAIN probes :
        LET s == RoundShape(ledger, probes[i].round)
        IN  /\ Truthy(s.effectiveAt) /\ Truthy(s.effective_at)
            /\ probes[i].at = s.closed_round_effective_at
            /\ probes[i].at # s.effectiveAt

\* The width of the interval a binary search still has to look at.
Width == IF left <= right THEN right - left + 1 ELSE 0
Searching == pc \in {"search1", "search2"}

\* C25: whatever the probes resolve to (unresolved, malformed, before, after
\* or in the month, in any order), every iteration of either binary search
\* strictly shrinks [left, right], and find_rounds_for_month comes to its
\* return for every latest_round >= 0.
C25_SearchesShrinkAndEnd ==
    /\ [][(Searching /\ pc' = pc) => (Width' < Width /\ left' >= left /\ right' <= right)]_vars
    /\ [](Searching => Width <= latest_round + 1)
    /\ (op = "find") ~> (pc = "done")

\* A search over out-of-order timestamps has ended.
C25_Witness ==
    /\ op = "find" /\ pc = "done"
    /\ ~NonDecreasing(ledger.tail)
    /\ Len(probes) > 2
    /\ \E i \in DOMAIN probes : ProbeUnresolved(i)

\* C26: every round find_rounds_for_month probes lies in [0, latest_round],
\* in the second search in [start_round, latest_round]; the window requested
\* for a probed round r satisfies 0 <= start <= r <= end <= latest_round; and
\* a returned result satisfies 0 <= start_round <= end_round <= latest_round.
C26_ProbesAndWindowsInRange ==
    op # "rounds"
        => /\ \A i \in DOMAIN probes :
                 /\ 0 <= probes[i].round
                 /\ probes[i].round <= latest_round
                 /\ probes[i].search = 2 => first_in_month <= probes[i].round
                 /\ probes[i].search = 0
                    => probes[i].round \in {first_in_month, last_in_month}
           /\ Len(FindCalls) = Len(probes)
           /\ \A i \in DOMAIN FindCalls :
                 /\ IsTotals(FindCalls[i])
                 /\ 0 <= FindCalls[i].a
                 /\ FindCalls[i].a <= probes[i].round
                 /\ probes[i].round <= FindCalls[i].b
                 /\ FindCalls[i].b <= latest_round
           /\ (FindReturned /\ rounds.found)
              => /\ 0 <= rounds.start_round
                 /\ rounds.start_round <= rounds.end_round
                 /\ rounds.end_round <= latest_round
                 /\ rounds.start_round = first_in_month

\* A second search has probed rounds of a window that latest_round cuts
\* short, and a result was returned.
C26_Witness ==
    /\ FindReturned /\ rounds.found
    /\ rounds.start_round > 0
    /\ \E i \in ProbesOf(2) :
          /\ probes[i].round > rounds.start_round
          /\ FindCalls[i].b = latest_round
          /\ FindCalls[i].b < FindCalls[i].a + batch_size - 1
          /\ FindCalls[i].a > 0

\* ------------------------------- further claims on export_activities_after
RowsWritten == Cardinality({i \in DOMAIN csv_file.lines : csv_file.lines[i].kind = "row"})

\* C27: every record pass 1 has buffered has no date, an empty date or a date
\* at or after the cutoff, and total_scanned counts the buffered records; so
\* the cutoff check of pass 2 never ends the writing early, and the number of
\* rows written is the number of records buffered.
C27_BufferedRecordsPassTheRecheck ==
    Exporting
        => /\ \A i \in DOMAIN all_flattened : ~DateBefore(all_flattened[i])
           /\ total_scanned = Len(all_flattened)
           /\ pc = "rows" => RowsWritten = cursor - 1
           /\ pc = "done"
              => /\ cursor = Len(all_flattened) + 1
                 /\ RowsWritten = total_scanned

\* The export has ended after the scan met an old record, with rows for
\* records without a date and for a record dated at the cutoff.
C27_Witness ==
    /\ Exporting /\ pc = "done"
    /\ FirstOld <= Len(feed)
    /\ RowsWritten = total_scanned /\ total_scanned >= 2
    /\ \E i \in DOMAIN all_flattened : "date" \notin DOMAIN all_flattened[i]
    /\ \E i \in DOMAIN all_flattened :
          "date" \in DOMAIN all_flattened[i]
              /\ all_flattened[i].date = args.after_timestamp

\* C28: export_activities_after issues its requests in pass 1 only, and the
\* output file is opened only after pass 1 has ended: while requests are
\* issued, and after one of them has raised, the file is what it was before
\* the call; once the file is written to, no request is issued any more.
C28_RequestsBeforeTheFile ==
    /\ [](Exporting /\ pc \in {"pass1", "pass2", "raised"}
             => csv_file \in {NoFile, OldFile})
    /\ [](Exporting /\ pc \in {"pass2", "rows", "done"} => failed = 0)
    /\ [][Exporting
             => /\ calls' # calls => (pc = "pass1" /\ csv_file' = csv_file)
                /\ csv_file' # csv_file => (pc \in {"pass2", "rows"} /\ calls' = calls)
                /\ pc' = "raised" => csv_file' = csv_file]_vars

\* The second page request has raised with records already buffered, and the
\* old file is still in place.
C28_Witness ==
    /\ Exporting /\ pc = "raised"
    /\ failed = 2 /\ Len(calls) = 2
    /\ all_flattened # <<>>
    /\ csv_file = OldFile

\* The page the Gateway returns to the request pass 1 is about to issue.
NextPage == list_activity(feed, args.page_size, begin_after_id).activities

\* Why pass 1 ends with this page: it is empty, it holds a record older than
\* the cutoff, or its last record has no event_id.
LastPage ==
    \/ NextPage = <<>>
    \/ \E i \in DOMAIN NextPage : DateBefore(NextPage[i])
    \/ "event_id" \notin DOMAIN NextPage[Len(NextPage)]

\* C29: over a finite feed, with a Gateway that returns the records after
\* begin_after_id, pass 1 of export_activities_after comes to an end; it ends
\* with the first page that is empty, holds a record older than the cutoff or
\* ends in a record without event_id, and goes on after every other page; no
\* cursor is requested twice and there are at most Len(feed) + 1 requests.
C29_Pass1Ends ==
    /\ (Exporting /\ pc = "pass1") ~> (pc = "done")
    /\ [][(Exporting /\ pc = "pass1") => (pc' = "pass1" <=> ~LastPage)]_vars
    /\ [](Exporting
             => /\ \A i, j \in DOMAIN calls : i # j => calls[i].a # calls[j].a
                /\ Len(calls) <= Len(feed) + 1)

\* Pass 1 has taken three requests over a feed whose dates are not in order
\* and has ended on an empty page.
C29_Witness ==
    /\ Exporting /\ pc = "done"
    /\ Len(calls) = 3
    /\ ~ReverseChronological(feed)
    /\ total_scanned = Len(feed)

\* ------------------------------------------- claims on the bulk lookup
\* The bulk lookup of get_wallet_balances_for_rounds has its range.
BulkStarted ==
    /\ op \in {"rounds", "month"}
    /\ pc \in {"bulk", "samples", "done"}
    /\ args.first_round # None

\* The requests of the bulk lookup that ask for round r.
Covering(r) == {k \in DOMAIN BulkCalls : BulkCalls[k].a <= r /\ r <= BulkCalls[k].b}

\* C30: the bulk lookup of get_wallet_balances_for_rounds(party, a, b, step)
\* asks for the windows [a + 200k, min(a + 200k + 199, b)], k = 0, 1, ..., in
\* ascending order, each starting right after the one before; no window
\* reaches outside [a, b]; when the lookup is over every round of [a, b] is
\* asked for by exactly one request; no round_totals request follows a
\* balance query; and with a > b no round_totals request is issued.
C30_BulkWindowsPartitionRange ==
    BulkStarted
        => /\ \A k \in DOMAIN BulkCalls :
                 /\ BulkCalls[k].a = (IF k = 1 THEN args.first_round
                                      ELSE BulkCalls[k - 1].b + 1)
                 /\ BulkCalls[k].a <= BulkCalls[k].b
                 /\ BulkCalls[k].b <= args.last_round
                 /\ BulkCalls[k].b - BulkCalls[k].a <= 199
                 /\ BulkCalls[k].b < args.last_round
                    => BulkCalls[k].b - BulkCalls[k].a = 199
           /\ \A i, j \in DOMAIN LaterCalls :
                 (i < j /\ IsBalance(LaterCalls[i])) => IsBalance(LaterCalls[j])
           /\ pc \in {"samples", "done"}
              => \A r \in args.first_round..args.last_round :
                    Cardinality(Covering(r)) = 1
           /\ args.first_round > args.last_round => LaterCalls = <<>>

\* A range that starts off the 200-grid has been looked up in three windows
\* and sampled.
C30_Witness ==
    /\ op = "rounds" /\ pc = "done"
    /\ Len(BulkCalls) = 3
    /\ args.first_round % 200 # 0
    /\ BulkCalls[3].b = args.last_round
    /\ results # <<>>

\* An empty range: nothing was requested.
C30_EmptyRange ==
    /\ op = "rounds" /\ pc = "done"
    /\ args.first_round > args.last_round
    /\ calls = <<>> /\ results = <<>>

====
